---- MODULE Spec2Model ----
(***************************************************************************)
(* Model of the task manager of react-use-ai (WorkflowGroupManager in      *)
(* src/react-use-ai/src/components/WorkflowDesigner.tsx) and of the        *)
(* configuration endpoints of src/jsp-to-react-ai/index.js.                *)
(*                                                                         *)
(* The specifications of the module share one set of variables:           *)
(*   SpecWf      - one workflow of one task: the step runner               *)
(*                 executeWorkflowWithRealAPI and the handlers that write  *)
(*                 the configuration document (saveConfig, its callers);   *)
(*   SpecSched   - the tasks of the manager: executeTask, stopTask and     *)
(*                 handleBatchExecute;                                     *)
(*   SpecPersist - the tasks of the manager run one by one, with saving    *)
(*                 and reloading of the task list;                         *)
(*   SpecCap     - a batch over five executable tasks;                     *)
(*   SpecRun     - a run of the designer (executeWorkflow) or a quick      *)
(*                 execute of MultiWorkflowManager, with its progress;     *)
(*   SpecRerun   - reExecuteFromStep after a successful run;               *)
(*   SpecDirect, SpecLoop - POST /api/process-file-direct and its          *)
(*                 continuation loop;                                      *)
(*   SpecPrompt  - the request inputs executeStepWithAPI builds;           *)
(*   SpecTask    - executeTask with the counters of executionResults;      *)
(*   SpecMaterialize - handleAdvancedBatchCreate, tasks made from a        *)
(*                 template and the selected files;                        *)
(*   SpecList    - POST /api/list-files;                                   *)
(*   SpecStep    - full runs, reExecuteFromStep and reExecuteStep on one   *)
(*                 workflow, with the status writes of every operation;    *)
(*   SpecEdit    - the edit operations on workflows: addStep, the step     *)
(*                 form, deleteStep, handleCopyWorkflow and                *)
(*                 handleImportWorkflow;                                   *)
(*   SpecSave    - saveConfig of the task manager and saveWorkflowConfig   *)
(*                 of the workflow list on one configuration document;     *)
(*   SpecCopy    - copies of tasks in the manager's list and the runs and  *)
(*                 single-step re-runs of their workflows;                 *)
(*   SpecStop    - handleQuickExecute of the workflow list with the stop   *)
(*                 button (handleStopExecution);                           *)
(*   SpecQueue   - the conversion queue of BatchProcessForm.                *)
(***************************************************************************)
EXTENDS Naturals, Integers, Sequences, FiniteSets, Bags, TLC

\* ------------------------------------------------------------------------
\* Bounds
\* ------------------------------------------------------------------------
NumSteps == 3
MaxDeps == 2
MaxTemplates == 2
NumTasks == 4
MaxRunners == 3
MaxBatches == 1
MaxDelta == 2
MaxRequests == 2
LoopRequests == 10
MaxPrompts == 2
MaxPromptLen == 2
MaxSelections == 2
MaxListCalls == 2
MaxWorkflows == 2
MaxIds == 5
MaxSaves == 3
MaxGroups == 3
MaxFiles == 7
MaxSecond == 1
MaxSubmissions == 2
MaxRetries == 1

\* The admission limit of executeTask. WorkflowDesigner.tsx:1147 fixes it to
\* 6 (useState(6)); the model scales it down, with NumTasks tasks to run.
maxConcurrentTasks == 2

\* ------------------------------------------------------------------------
\* The workflow of SpecWf
\* ------------------------------------------------------------------------
\* Steps are named by their rank in ascending `order`; Ghost is a step id
\* that names no step of the workflow (handleCopyWorkflow and
\* handleImportWorkflow mint new step ids and keep the old dependencies).
StepIds == 1..NumSteps
Ghost == 0
VARIABLES
  deps,           \* step.dependencies of every step (arrays of step ids)
  stepStatus,     \* step.status of the live workflow object
  stepResult,     \* step.result: "none" (undefined), "ok" or "err" (success flag)
  wfPc,           \* "idle" | "calling" | "resolved" | "rejected"
  cur,            \* the step whose executeStepWithAPI call is in flight, 0 if none
  executedSteps,  \* the run's executedSteps set
  stepResults,    \* the run's stepResults map, as the set of its keys (all success)
  apiCalls,       \* how often executeStepWithAPI was called per step in the run
  startedOk,      \* per step: were all dependencies in stepResults when it started
  templates,      \* number of templates in memory that were exported from the task
  doc             \* multi-file-stream-config.json

VARIABLES
  runner,         \* which component runs the workflow: "task" (executeWorkflowWithRealAPI),
                  \* "designer" (executeWorkflow) or "quick" (handleQuickExecute)
  progress        \* the progress the run reports, in percent

runVars == <<runner, progress>>

VARIABLES
  rerun,          \* the reExecuteFromStep call in flight or last made
  resultGen,      \* per step: 0 no result, 1 a result from before the last
                  \* re-run, 2 a result produced in it
  supplied        \* per step: the previous results its last call was given in
                  \* the re-run, as dependency id -> generation (0: none)

rerunVars == <<rerun, resultGen, supplied>>

VARIABLES
  dpc,            \* POST /api/process-file-direct: "idle" | "requesting" | "done" | "failed"
  messages,       \* the messages array sent with the next completion request
  aiContent,      \* the text assembled so far
  finishReason,   \* the finishReason variable ("undefined" until a chunk sets it)
  requests,       \* completion requests made for the current call
  iterations,     \* the streams received: content deltas and finish_reason of each
  written         \* the output file: whether it was written, and its content

directVars == <<dpc, messages, aiContent, finishReason, requests, iterations, written>>

VARIABLES
  ppc,             \* executeStepWithAPI: "idle" | "sent" (request posted) | "error" (threw)
  promptInputs,    \* step.config.promptInputs: the content of each prompt input
  processedInputs  \* the inputs of the request

promptVars == <<ppc, promptInputs, processedInputs>>

wfVars == <<deps, stepStatus, stepResult, wfPc, cur, executedSteps, stepResults,
            apiCalls, startedOk, templates, doc, runVars, rerunVars, directVars, promptVars>>

VARIABLES
  groups,         \* the task list: status and executionResults of every task
  executingTasks, \* the executingTasks set
  runners,        \* the executeTask calls in flight (a bag of their positions)
  batches,        \* the handleBatchExecute calls in flight
  lastRequest,    \* the latest executeTask call and what it answered
  savedGroups     \* workflowGroups of multi-file-stream-config.json

schedVars == <<groups, executingTasks, runners, batches, lastRequest, savedGroups>>

VARIABLES
  executionResults, \* completedWorkflows / failedWorkflows of every task's executionResults
  lastSettled       \* the workflow whose executeWorkflowWithRealAPI settled last, and how

taskVars == <<executionResults, lastSettled>>

VARIABLES
  mpc,         \* handleAdvancedBatchCreate: "idle" | "created" | "rejected"
  batchCreate, \* its inputs: the template and the values of the form
  newGroups    \* the tasks it made, one per selected file

materializeVars == <<mpc, batchCreate, newGroups>>

VARIABLES
  listed       \* POST /api/list-files: the requests answered so far, with their answers

listVars == <<listed>>

VARIABLES
  op,           \* the operation on the workflow in flight or last made:
                \* "none" | "run" | "from" (reExecuteFromStep) | "step" (reExecuteStep)
  single,       \* the reExecuteStep call, if it is the operation in flight or
                \* last made: its step, the dependencies it found missing
                \* and whether it executed the step
  statusWrites  \* the changes of step.status the last operation step made

stepVars == <<op, single, statusWrites>>

VARIABLES
  workflows,    \* the workflow list of MultiWorkflowManager: every workflow with
                \* its steps in ascending order, each with its id, its
                \* dependencies and the dependsOn of its file input (0: none)
  nextId        \* the next step id to be minted

VARIABLES
  configFile,   \* multi-file-stream-config.json as the save operations see it:
                \* the fields of its workflowGroups and the workflows of the
                \* group's template, each as the number of the edit it holds
  saves,        \* per save function: where its call is ("idle" | "loaded"), the
                \* existingConfig it loaded and the edit it is saving
  saveCount,    \* the edits made so far
  fileExists    \* whether multi-file-stream-config.json exists

VARIABLES
  groupTemplate,  \* per task of the manager's list: the template object its
                  \* template field refers to
  templateSteps,  \* per template object: the status of the steps of its workflow
  executing       \* the task whose workflow is being executed or re-run, 0 if none

VARIABLES
  isRunning,    \* execution.isRunning of the workflow's record in the executions map
  stopped       \* the user stopped the execution in flight (handleStopExecution)

VARIABLES
  conversionQueue,    \* the conversionQueue state of BatchProcessForm: id and status
                      \* of every conversion task
  allTasksCompleted,  \* its allTasksCompleted state
  inFlight,           \* the processTask calls whose request is not answered yet
                      \* (a bag of task ids)
  submissions,        \* the batches submitted so far
  retries             \* the retries made so far

\* The variables of the specifications added last.
moreVars == <<workflows, nextId, configFile, saves, saveCount, fileExists,
              groupTemplate, templateSteps, executing, isRunning, stopped,
              conversionQueue, allTasksCompleted, inFlight, submissions, retries>>

\* The variables only some specifications follow; the others leave them as
\* they are.
extraVars == <<taskVars, materializeVars, listVars, stepVars, moreVars>>

vars == <<wfVars, schedVars, extraVars>>

\* The arrays a step's dependencies may hold: no duplicates, at most MaxDeps ids.
DepSeqs ==
  LET
    DepIds == StepIds \cup {Ghost}
  IN
  {q \in UNION {[1..n -> DepIds] : n \in 0..MaxDeps} :
     \A i, j \in DOMAIN q : i # j => q[i] # q[j]}

Overflow == 0 - 1

\* executeStep(s) up to its first suspension: the step that is set to
\* 'running', or Overflow when the recursion through unexecuted
\* dependencies re-enters a step that is still on the call stack (the
\* recursion never ends: RangeError, which rejects every pending
\* executeStep), or 0 when the call returns without running anything.
RECURSIVE Descend(_, _, _, _)
Descend(d, executed, s, stack) ==
  LET
    \* Position of the first dependency of s that executeStep recurses into:
    \* not yet in executedSteps and found by workflow.steps.find; 0 if none.
    FirstOpenDep ==
      LET open == {i \in DOMAIN d[s] : d[s][i] \notin executed /\ d[s][i] \in StepIds}
      IN IF open = {} THEN 0 ELSE CHOOSE i \in open : \A j \in open : i <= j
  IN
  LET i == FirstOpenDep
  IN IF i # 0
       THEN IF d[s][i] \in stack \cup {s}
              THEN Overflow
              ELSE Descend(d, executed, d[s][i], stack \cup {s})
       ELSE IF s \in executed THEN 0 ELSE s

\* The loop `for (const step of workflow.steps.sort(...)) if
\* (!executedSteps.has(step.id)) await executeStep(step)`: the next step to
\* be set running, Overflow, or 0 when the loop is over.
NextTarget(d, executed) ==
  LET rest == StepIds \ executed
  IN IF rest = {} THEN 0
     ELSE Descend(d, executed, CHOOSE s \in rest : \A t \in rest : s <= t, {})

Min2(a, b) == IF a < b THEN a ELSE b

\* Continue the run after `executed` is known: start the next step or settle.
Advance(executed, results, status) ==
  LET t == NextTarget(deps, executed)
  IN IF t = 0 THEN
       /\ wfPc' = "resolved" /\ cur' = 0
       /\ stepStatus' = status
       /\ UNCHANGED <<apiCalls, startedOk>>
     ELSE IF t = Overflow THEN
       /\ wfPc' = "rejected" /\ cur' = 0
       /\ stepStatus' = status
       /\ UNCHANGED <<apiCalls, startedOk>>
     ELSE
       /\ wfPc' = "calling" /\ cur' = t
       /\ stepStatus' = [status EXCEPT ![t] = "running"]
       /\ apiCalls' = [apiCalls EXCEPT ![t] = Min2(@ + 1, 2)]
       /\ startedOk' = [startedOk EXCEPT ![t] =
            IF \A i \in DOMAIN deps[t] : deps[t][i] \in results
              THEN "yes" ELSE "no"]

\* executeWorkflowWithRealAPI up to its first suspension.
StartRun ==
  /\ wfPc # "calling"
  /\ stepResult' = [s \in StepIds |-> "none"]
  /\ executedSteps' = {}
  /\ stepResults' = {}
  /\ LET fresh == [s \in StepIds |-> "pending"]
         t == NextTarget(deps, {})
     IN IF t = Overflow THEN
          /\ wfPc' = "rejected" /\ cur' = 0 /\ stepStatus' = fresh
          /\ apiCalls' = [s \in StepIds |-> 0]
          /\ startedOk' = [s \in StepIds |-> "none"]
        ELSE
          /\ wfPc' = "calling" /\ cur' = t
          /\ stepStatus' = [fresh EXCEPT ![t] = "running"]
          /\ apiCalls' = [s \in StepIds |-> IF s = t THEN 1 ELSE 0]
          /\ startedOk' = [s \in StepIds |->
               IF s # t THEN "none"
               ELSE IF deps[t] = <<>> THEN "yes" ELSE "no"]
  /\ UNCHANGED <<deps, templates, doc, schedVars>>

\* A step that succeeds without being added to executedSteps.
StepSucceedsForgets ==
  /\ wfPc = "calling"
  /\ stepResult' = [stepResult EXCEPT ![cur] = "ok"]
  /\ executedSteps' = executedSteps
  /\ stepResults' = stepResults \cup {cur}
  /\ Advance(executedSteps, stepResults \cup {cur},
             [stepStatus EXCEPT ![cur] = "success"])
  /\ UNCHANGED <<deps, templates, doc, schedVars>>

\* executeStepWithAPI returned a result: the step succeeds and the run goes on.
StepSucceeds ==
  /\ wfPc = "calling"
  /\ stepResult' = [stepResult EXCEPT ![cur] = "ok"]
  /\ executedSteps' = executedSteps \cup {cur}
  /\ stepResults' = stepResults \cup {cur}
  /\ Advance(executedSteps \cup {cur}, stepResults \cup {cur},
             [stepStatus EXCEPT ![cur] = "success"])
  /\ UNCHANGED <<deps, templates, doc, schedVars>>

\* executeStepWithAPI threw: the step is marked error and the error is
\* rethrown through every executeStep frame and the loop; the run rejects.
StepFails ==
  /\ wfPc = "calling"
  /\ stepStatus' = [stepStatus EXCEPT ![cur] = "error"]
  /\ stepResult' = [stepResult EXCEPT ![cur] = "err"]
  /\ wfPc' = "rejected"
  /\ cur' = 0
  /\ UNCHANGED <<deps, executedSteps, stepResults, apiCalls, startedOk, templates, doc,
                 schedVars>>

\* The document saveConfig(groups, newTemplates) posts: the task's steps go
\* through the strip, workflowGroupTemplates is newTemplates as it is. A
\* template made by handleExportAsTemplate holds group.template.workflows
\* itself, so each of the n templates is written with the live steps.
SaveConfigDoc(n) ==
  LET
    \* steps.map(step => ({...step, status: 'pending', result: undefined}))
    Strip(steps) == [s \in DOMAIN steps |-> [status |-> "pending", result |-> "none"]]
    \* The steps of the task's workflow as they are in memory.
    LiveSteps == [s \in StepIds |-> [status |-> stepStatus[s], result |-> stepResult[s]]]
  IN
  [groupSteps |-> Strip(LiveSteps), templates |-> [i \in 1..n |-> LiveSteps]]

\* handleExportAsTemplate: a template that shares the task's workflows is
\* put in front of the templates and the configuration is saved.
ExportAsTemplate ==
  /\ templates < MaxTemplates
  /\ doc' = SaveConfigDoc(templates + 1)
  /\ templates' = templates + 1
  /\ UNCHANGED <<deps, stepStatus, stepResult, wfPc, cur, executedSteps, stepResults,
                 apiCalls, startedOk, schedVars>>

\* handleDeleteTemplate: one template is removed and the configuration is saved.
DeleteTemplate ==
  /\ templates > 0
  /\ doc' = SaveConfigDoc(templates - 1)
  /\ templates' = templates - 1
  /\ UNCHANGED <<deps, stepStatus, stepResult, wfPc, cur, executedSteps, stepResults,
                 apiCalls, startedOk, schedVars>>

\* ------------------------------------------------------------------------
\* The task manager (SpecSched)
\* ------------------------------------------------------------------------
Tasks == 1..NumTasks

\* executableWorkflows.length of a task: task 1 has two workflows with steps,
\* the last task has none, every other task has one.
WfCount(t) == IF t = 1 THEN 2 ELSE IF t = NumTasks THEN 0 ELSE 1

BatchIds == 1..MaxBatches

NoBatch == [list |-> <<>>]
Manual == <<0, 0>>

\* How many more executeTask calls the model lets run at once.
FreeRunners(r) == MaxRunners - BagCardinality(r)

\* The tasks handleBatchExecute takes: idle, with a workflow that has steps,
\* in the order of the task list.
RECURSIVE IdleFrom(_, _)
IdleFrom(g, t) ==
  IF t > Len(g) THEN <<>>
  ELSE IF g[t].status = "idle" /\ WfCount(t) > 0
         THEN <<t>> \o IdleFrom(g, t + 1)
         ELSE IdleFrom(g, t + 1)

\* executeTask(t) up to its first suspension, on the scheduler state st.
\* `view` is executingTasks.size as the calling closure sees it: the current
\* size for a click on the task's button, the size at the time of the
\* handleBatchExecute click for every call a batch worker makes.
ExecuteTaskOn(st, t, view, owner) ==
  LET req == [admitted |-> FALSE, executing |-> Cardinality(st.e),
              runnable |-> WfCount(t) > 0]
  IN IF view >= maxConcurrentTasks THEN [st EXCEPT !.last = req]
     ELSE IF WfCount(t) = 0 THEN [st EXCEPT !.last = req]
     ELSE
       [g |-> [st.g EXCEPT ![t] = [status |-> "running", exec |-> "open"]],
        e |-> st.e \cup {t},
        r |-> st.r (+) SetToBag({[task |-> t, i |-> 0, pc |-> "wf", failed |-> 0,
                                  owner |-> owner]}),
        last |-> [req EXCEPT !.admitted = TRUE]]

SchedState == [g |-> groups, e |-> executingTasks, r |-> runners, last |-> lastRequest]

\* What a batch worker does when its executeTask call has returned: sleep
\* 200 ms if tasks are left, else leave the loop.
AfterTask(b) == IF b.taskIndex < Len(b.list) THEN "sleep" ELSE "done"

\* A batch whose workers have all returned is resolved (Promise.all).
\* `finished` of a batch: the tasks an executeTask call of one of its workers
\* has run to its end.
Settle(b) == IF \A w \in DOMAIN b.workers : b.workers[w] = "done" THEN NoBatch ELSE b

\* The button of an idle task: executeTask from the current render.
ManualExecute(t) ==
  /\ groups[t].status = "idle"
  /\ FreeRunners(runners) > 0
  /\ LET st == ExecuteTaskOn(SchedState, t, Cardinality(executingTasks), Manual)
     IN /\ groups' = st.g
        /\ executingTasks' = st.e
        /\ runners' = st.r
        /\ lastRequest' = st.last
  /\ UNCHANGED <<batches, savedGroups, wfVars>>

\* stopTask: the button of a running task.
StopTask(t) ==
  /\ groups[t].status = "running"
  /\ groups' = [groups EXCEPT ![t] =
       [status |-> "idle", exec |-> IF @.exec = "none" THEN "none" ELSE "ended"]]
  /\ executingTasks' = executingTasks \ {t}
  /\ UNCHANGED <<runners, batches, lastRequest, savedGroups, wfVars>>

\* handleStopAll stopping only the first executing task.
StopTargetsFirstOnly(e) == {CHOOSE t \in e : \A u \in e : t <= u}

\* The tasks handleStopAll calls stopTask for: Array.from(executingTasks).
StopTargets(e) == e

\* handleStopAll (its button is enabled while a task has status running):
\* stopTask has no await, so every stop is done when the handler's
\* Promise.allSettled resolves.
StopAll ==
  /\ \E t \in DOMAIN groups : groups[t].status = "running"
  /\ executingTasks # {}
  /\ groups' = [t \in DOMAIN groups |->
       IF t \in StopTargets(executingTasks)
         THEN [status |-> "idle",
               exec |-> IF groups[t].exec = "none" THEN "none" ELSE "ended"]
         ELSE groups[t]]
  /\ executingTasks' = executingTasks \ StopTargets(executingTasks)
  /\ UNCHANGED <<runners, batches, lastRequest, savedGroups, wfVars>>

\* A final status that is failed as soon as one workflow failed.
FinalStatusAnyFailure(completedWorkflows, failedWorkflows) ==
  IF failedWorkflows = 0 THEN "completed" ELSE "failed"

\* The final status executeTask computes from its two counters.
FinalStatus(completedWorkflows, failedWorkflows) ==
  IF failedWorkflows = 0 THEN "completed"
  ELSE IF completedWorkflows > 0 THEN "completed" ELSE "failed"

\* A task run that goes on to the next workflow only after a success.
TaskContinuesIfOk(ru, ok) == ok /\ ru.i < WfCount(ru.task) - 1

\* Whether executeTask has a further workflow to run after workflow ru.i
\* settled: the loop goes on whatever the outcome was.
TaskContinues(ru, ok) == ru.i < WfCount(ru.task) - 1

\* executeWorkflowWithRealAPI of the runner's current workflow settled
\* (ok: resolved, else rejected). After the last workflow executeTask writes
\* the final status and leaves executingTasks; a batch worker that awaited
\* the call goes on.
WorkflowSettles(ru, ok) ==
  /\ ru.pc = "wf"
  /\ LET t == ru.task
         failed == IF ok THEN ru.failed ELSE ru.failed + 1
         done == ru.i + 1
     IN IF TaskContinues(ru, ok) THEN
          /\ runners' = (runners (-) SetToBag({ru}))
                         (+) SetToBag({[ru EXCEPT !.pc = "pause", !.failed = failed]})
          /\ UNCHANGED <<groups, executingTasks, batches>>
        ELSE
          /\ groups' = [groups EXCEPT ![t] =
               [status |-> FinalStatus(done - failed, failed), exec |-> "ended"]]
          /\ executingTasks' = executingTasks \ {t}
          /\ runners' = runners (-) SetToBag({ru})
          /\ IF ru.owner = Manual THEN UNCHANGED batches
             ELSE LET b == batches[ru.owner[1]]
                      nb == [b EXCEPT !.workers[ru.owner[2]] = AfterTask(b),
                                      !.finished = @ \cup {t}]
                  IN batches' = [batches EXCEPT ![ru.owner[1]] = Settle(nb)]
  /\ UNCHANGED <<lastRequest, savedGroups, wfVars>>

\* The 500 ms pause between two workflows of a task is over.
PauseDone(ru) ==
  /\ ru.pc = "pause"
  /\ runners' = (runners (-) SetToBag({ru}))
                 (+) SetToBag({[ru EXCEPT !.pc = "wf", !.i = @ + 1]})
  /\ UNCHANGED <<groups, executingTasks, batches, lastRequest, savedGroups, wfVars>>

\* The first min(maxConcurrentTasks, n) workers of a batch, started one
\* after the other inside the click handler: worker w takes list[w].
\* handleBatchExecute starting one worker per task of the list (concurrentCount
\* without Math.min).
RECURSIVE StartWorkersUncapped(_, _, _, _, _)
StartWorkersUncapped(st, list, view, b, w) ==
  IF w > Len(list) THEN st
  ELSE StartWorkersUncapped(ExecuteTaskOn(st, list[w], view, <<b, w>>), list, view, b, w + 1)

RECURSIVE StartWorkers(_, _, _, _, _)
StartWorkers(st, list, view, b, w) ==
  IF w > Min2(maxConcurrentTasks, Len(list)) THEN st
  ELSE StartWorkers(ExecuteTaskOn(st, list[w], view, <<b, w>>), list, view, b, w + 1)

\* handleBatchExecute.
BatchExecute(b) ==
  /\ batches[b] = NoBatch
  /\ LET list == IdleFrom(groups, 1)
         view == Cardinality(executingTasks)
         k == Min2(maxConcurrentTasks, Len(list))
         st == StartWorkers(SchedState, list, view, b, 1)
         admitted == view < maxConcurrentTasks
         nb == [list |-> list, taskIndex |-> k, view |-> view, finished |-> {},
                workers |-> [w \in 1..k |->
                   IF admitted THEN "exec"
                   ELSE IF k < Len(list) THEN "sleep" ELSE "done"]]
     IN /\ list # <<>>
        /\ admitted => FreeRunners(runners) >= k
        /\ groups' = st.g
        /\ executingTasks' = st.e
        /\ runners' = st.r
        /\ lastRequest' = st.last
        /\ batches' = [batches EXCEPT ![b] = Settle(nb)]
  /\ UNCHANGED <<savedGroups, wfVars>>

\* A batch worker's 200 ms sleep is over: it takes the next task of the
\* list, if one is left, and calls executeTask with the batch's closure.
WorkerWakes(b, w) ==
  /\ batches[b] # NoBatch
  /\ w \in DOMAIN batches[b].workers
  /\ batches[b].workers[w] = "sleep"
  /\ LET ba == batches[b]
     IN IF ba.taskIndex >= Len(ba.list) THEN
          /\ batches' = [batches EXCEPT ![b] = Settle([ba EXCEPT !.workers[w] = "done"])]
          /\ UNCHANGED <<groups, executingTasks, runners, lastRequest>>
        ELSE
          LET t == ba.list[ba.taskIndex + 1]
              taken == [ba EXCEPT !.taskIndex = @ + 1]
              st == ExecuteTaskOn(SchedState, t, ba.view, <<b, w>>)
          IN /\ FreeRunners(runners) > 0
             /\ groups' = st.g
             /\ executingTasks' = st.e
             /\ runners' = st.r
             /\ lastRequest' = st.last
             /\ batches' = [batches EXCEPT ![b] =
                  IF st.last.admitted
                    THEN [taken EXCEPT !.workers[w] = "exec"]
                    ELSE Settle([taken EXCEPT !.workers[w] = AfterTask(taken)])]
  /\ UNCHANGED <<savedGroups, wfVars>>

\* saveConfig(groups, ...) as handleExportAsTemplate, handleDeleteTemplate,
\* handleCopyGroup and handleDeleteGroup call it: every task is written with
\* the status and executionResults it has in memory.
SaveConfig ==
  /\ savedGroups' = groups
  /\ UNCHANGED <<groups, executingTasks, runners, batches, lastRequest, wfVars>>

\* loadGroups (the refresh button): the task list is replaced by the saved one.
LoadGroups ==
  /\ groups' = savedGroups
  /\ UNCHANGED <<executingTasks, runners, batches, lastRequest, savedGroups, wfVars>>

\* The page is opened again: every runner is gone and loadGroups runs on mount.
ReloadApp ==
  /\ groups' = savedGroups
  /\ executingTasks' = {}
  /\ runners' = EmptyBag
  /\ batches' = [b \in BatchIds |-> NoBatch]
  /\ lastRequest' = [admitted |-> FALSE, executing |-> 0, runnable |-> FALSE]
  /\ UNCHANGED <<savedGroups, wfVars>>

NoRerun == [kind |-> "none", start |-> 0, affected |-> {}, allOk |-> FALSE]

DirectIdle ==
  LET
    NoSettled == [task |-> 0, i |-> 0, ok |-> TRUE]
  IN
  /\ executionResults = [t \in Tasks |-> [completedWorkflows |-> 0, failedWorkflows |-> 0]]
  /\ lastSettled = NoSettled
  /\ mpc = "idle"
  /\ batchCreate = <<>>
  /\ newGroups = <<>>
  /\ listed = <<>>
  /\ op = "none"
  /\ single = [kind |-> "none", step |-> 0, missing |-> {}, executed |-> FALSE]
  /\ statusWrites = {}
  /\ workflows = << <<>> >>
  /\ nextId = 1
  /\ configFile = [workflowGroups |-> 0, workflows |-> 0]
  /\ saves = [c \in {"saveConfig", "saveWorkflowConfig"} |->
               [pc |-> "idle", existingConfig |-> configFile, edit |-> 0,
                result |-> "none"]]
  /\ saveCount = 0
  /\ fileExists = FALSE
  /\ groupTemplate = <<1, 2>>
  /\ templateSteps = [o \in 1..2 |-> [s \in StepIds |-> "pending"]]
  /\ executing = 0
  /\ isRunning = FALSE
  /\ stopped = FALSE
  /\ conversionQueue = <<>>
  /\ allTasksCompleted = TRUE
  /\ inFlight = EmptyBag
  /\ submissions = 0
  /\ retries = 0
  /\ ppc = "idle"
  /\ promptInputs = <<>>
  /\ processedInputs = <<>>
  /\ dpc = "idle"
  /\ messages = <<>>
  /\ aiContent = <<>>
  /\ finishReason = "undefined"
  /\ requests = 0
  /\ iterations = <<>>
  /\ written = [set |-> FALSE, content |-> <<>>]

RerunIdle ==
  /\ DirectIdle
  /\ rerun = NoRerun
  /\ resultGen = [s \in StepIds |-> 0]
  /\ supplied = [s \in StepIds |-> <<>>]

WfIdle ==
  /\ RerunIdle
  /\ runner = "task"
  /\ progress = 0
  /\ deps = [s \in StepIds |-> <<>>]
  /\ stepStatus = [s \in StepIds |-> "pending"]
  /\ stepResult = [s \in StepIds |-> "none"]
  /\ wfPc = "idle"
  /\ cur = 0
  /\ executedSteps = {}
  /\ stepResults = {}
  /\ apiCalls = [s \in StepIds |-> 0]
  /\ startedOk = [s \in StepIds |-> "none"]
  /\ templates = 0
  /\ doc = [groupSteps |-> [s \in StepIds |-> [status |-> "pending", result |-> "none"]],
            templates |-> <<>>]

SchedIdle ==
  /\ groups = [t \in Tasks |-> [status |-> "idle", exec |-> "none"]]
  /\ executingTasks = {}
  /\ runners = EmptyBag
  /\ batches = [b \in BatchIds |-> NoBatch]
  /\ lastRequest = [admitted |-> FALSE, executing |-> 0, runnable |-> FALSE]
  /\ savedGroups = [t \in Tasks |-> [status |-> "idle", exec |-> "none"]]

SchedInit == SchedIdle /\ WfIdle

SchedNext ==
  \/ \E t \in Tasks : ManualExecute(t) /\ UNCHANGED extraVars
  \/ \E t \in Tasks : StopTask(t) /\ UNCHANGED extraVars
  \/ StopAll /\ UNCHANGED extraVars
  \/ \E ru \in BagToSet(runners), ok \in BOOLEAN : WorkflowSettles(ru, ok) /\ UNCHANGED extraVars
  \/ \E ru \in BagToSet(runners) : PauseDone(ru) /\ UNCHANGED extraVars
  \/ \E b \in BatchIds : BatchExecute(b) /\ UNCHANGED extraVars
  \/ \E b \in BatchIds, w \in (1..maxConcurrentTasks) : WorkerWakes(b, w) /\ UNCHANGED extraVars

SpecSched == SchedInit /\ [][SchedNext]_vars

\* The task list and its saved copy: the buttons of a task, saving and loading.
PersistNext ==
  \/ \E t \in Tasks : ManualExecute(t) /\ UNCHANGED extraVars
  \/ \E t \in Tasks : StopTask(t) /\ UNCHANGED extraVars
  \/ \E ru \in BagToSet(runners), ok \in BOOLEAN : WorkflowSettles(ru, ok) /\ UNCHANGED extraVars
  \/ \E ru \in BagToSet(runners) : PauseDone(ru) /\ UNCHANGED extraVars
  \/ SaveConfig /\ UNCHANGED extraVars
  \/ LoadGroups /\ UNCHANGED extraVars
  \/ ReloadApp /\ UNCHANGED extraVars

SpecPersist == SchedInit /\ [][PersistNext]_vars

\* ------------------------------------------------------------------------
\* The runs of the tasks with their counters (SpecTask)
\* ------------------------------------------------------------------------
\* executeTask from a task's button; an admitted call sets the counters of the
\* task's executionResults to 0.
TaskExecute(t) ==
  /\ ManualExecute(t)
  /\ executionResults' = IF lastRequest'.admitted
                           THEN [executionResults EXCEPT ![t] = [completedWorkflows |-> 0, failedWorkflows |-> 0]]
                           ELSE executionResults
  /\ UNCHANGED <<lastSettled, materializeVars, listVars, moreVars, stepVars>>

\* A workflow of a task settled: executeTask counts it and writes both
\* counters to the task (after every workflow, and with the final status).
TaskWorkflowSettles(ru, ok) ==
  /\ WorkflowSettles(ru, ok)
  /\ lastSettled' = [task |-> ru.task, i |-> ru.i, ok |-> ok]
  /\ UNCHANGED <<materializeVars, listVars, moreVars, stepVars>>
  /\ LET failed == IF ok THEN ru.failed ELSE ru.failed + 1
     IN executionResults' = [executionResults EXCEPT ![ru.task] =
          [completedWorkflows |-> ru.i + 1 - failed, failedWorkflows |-> failed]]

TaskNext ==
  \/ \E t \in Tasks : TaskExecute(t)
  \/ \E t \in Tasks : StopTask(t) /\ UNCHANGED extraVars
  \/ \E ru \in BagToSet(runners), ok \in BOOLEAN : TaskWorkflowSettles(ru, ok)
  \/ \E ru \in BagToSet(runners) : PauseDone(ru) /\ UNCHANGED extraVars

SpecTask == SchedInit /\ [][TaskNext]_vars

\* Scenario D: five idle tasks with steps (and the task without steps), no
\* request but one handleBatchExecute click.
CapTasks == NumTasks + 2

CapInit ==
  /\ groups = [t \in 1..CapTasks |-> [status |-> "idle", exec |-> "none"]]
  /\ executingTasks = {}
  /\ runners = EmptyBag
  /\ batches = [b \in BatchIds |-> NoBatch]
  /\ lastRequest = [admitted |-> FALSE, executing |-> 0, runnable |-> FALSE]
  /\ savedGroups = [t \in 1..CapTasks |-> [status |-> "idle", exec |-> "none"]]
  /\ WfIdle

\* Scenario D has one batch-execute-all call and no other request.
CapNext ==
  \/ BatchExecute(1) /\ UNCHANGED extraVars
  \/ \E b \in BatchIds, w \in (1..maxConcurrentTasks) : WorkerWakes(b, w) /\ UNCHANGED extraVars
  \/ \E ru \in BagToSet(runners), ok \in BOOLEAN : WorkflowSettles(ru, ok) /\ UNCHANGED extraVars
  \/ \E ru \in BagToSet(runners) : PauseDone(ru) /\ UNCHANGED extraVars

SpecCap == CapInit /\ [][CapNext]_vars

WfInit ==
  /\ RerunIdle
  /\ runner = "task"
  /\ progress = 0
  /\ deps \in [StepIds -> DepSeqs]
  /\ stepStatus = [s \in StepIds |-> "pending"]
  /\ stepResult = [s \in StepIds |-> "none"]
  /\ wfPc = "idle"
  /\ cur = 0
  /\ executedSteps = {}
  /\ stepResults = {}
  /\ apiCalls = [s \in StepIds |-> 0]
  /\ startedOk = [s \in StepIds |-> "none"]
  /\ templates = 0
  /\ doc = [groupSteps |-> [s \in StepIds |-> [status |-> "pending", result |-> "none"]],
            templates |-> <<>>]
  /\ SchedIdle

WfNext ==
  \/ StartRun /\ UNCHANGED <<runVars, rerunVars, directVars, promptVars, extraVars>>
  \/ StepSucceeds /\ UNCHANGED <<runVars, rerunVars, directVars, promptVars, extraVars>>
  \/ StepFails /\ UNCHANGED <<runVars, rerunVars, directVars, promptVars, extraVars>>
  \/ ExportAsTemplate /\ UNCHANGED <<runVars, rerunVars, directVars, promptVars, extraVars>>
  \/ DeleteTemplate /\ UNCHANGED <<runVars, rerunVars, directVars, promptVars, extraVars>>

SpecWf == WfInit /\ [][WfNext]_vars

\* ------------------------------------------------------------------------
\* The workflow runs of the designer and of the workflow list (SpecRun)
\* ------------------------------------------------------------------------
\* executeWorkflow and handleQuickExecute run the steps with the algorithm of
\* executeWorkflowWithRealAPI and report (completedSteps / totalSteps) * 100.
Percent(completedSteps) == (completedSteps * 100) \div NumSteps

\* executeWorkflow (designer): progress 0 at the start; a run that fails
\* before its first call goes through `finally` at once.
ExecuteWorkflow ==
  /\ StartRun
  /\ runner' = "designer"
  /\ progress' = IF wfPc' = "calling" THEN 0 ELSE 100

\* handleQuickExecute (workflow list): a new execution record, progress 0.
QuickExecute ==
  /\ StartRun
  /\ runner' = "quick"
  /\ progress' = 0

\* The step's call returned: completedSteps++ and the progress is reported;
\* when the designer's run is over its `finally` sets 100.
RunStepSucceeds ==
  /\ StepSucceeds
  /\ runner' = runner
  /\ progress' = IF runner = "designer" /\ wfPc' # "calling" THEN 100
                  ELSE Percent(Cardinality(executedSteps'))

\* The step's call threw: completedSteps++ and the progress is reported, the
\* error ends the run; the designer's `finally` sets 100, handleQuickExecute's
\* catch leaves the progress as it is.
RunStepFails ==
  /\ StepFails
  /\ runner' = runner
  /\ progress' = IF runner = "designer" THEN 100
                  ELSE Percent(Cardinality(executedSteps) + 1)

RunNext ==
  \/ ExecuteWorkflow /\ UNCHANGED <<rerunVars, directVars, promptVars, extraVars>>
  \/ QuickExecute /\ UNCHANGED <<rerunVars, directVars, promptVars, extraVars>>
  \/ RunStepSucceeds /\ UNCHANGED <<rerunVars, directVars, promptVars, extraVars>>
  \/ RunStepFails /\ UNCHANGED <<rerunVars, directVars, promptVars, extraVars>>

SpecRun == WfInit /\ [][RunNext]_vars

\* ------------------------------------------------------------------------
\* Re-run from a step (SpecRerun)
\* ------------------------------------------------------------------------
\* The ids in step s's dependencies.
DepSet(s) == {deps[s][i] : i \in DOMAIN deps[s]}

\* The dependency arrays the step form builds: ids of steps of lower order
\* (availableDependencies of StepForm), here in ascending order.
EditorDeps ==
  {d \in [StepIds -> DepSeqs] :
     \A s \in StepIds : \A i \in DOMAIN d[s] :
       /\ d[s][i] \in 1..(s - 1)
       /\ \A j \in DOMAIN d[s] : i < j => d[s][i] < d[s][j]}

\* getAffectedSteps without its recursion: the start step and the steps that
\* list it in their dependencies.
GetAffectedStepsOnce(S, n) == S \cup {s \in StepIds : DepSet(s) \cap S # {}}

\* getAffectedSteps of the designer: the start step and every step that
\* lists an affected step in its dependencies.
RECURSIVE GetAffectedSteps(_, _)
GetAffectedSteps(S, n) ==
  IF n = 0 THEN S
  ELSE GetAffectedSteps(S \cup {s \in StepIds : DepSet(s) \cap S # {}}, n - 1)

\* The manager's filter with `>` for `>=`: the start step is left out.
StepsFromOrderExclusive(start) == {s \in StepIds : s > start}

\* stepsToReExecute of the manager: every step whose order is at least the
\* start step's.
StepsFromOrder(start) == {s \in StepIds : s >= start}

\* executeStep of the designer's re-run up to its first suspension: as
\* Descend, but it only recurses into dependencies that are re-executed.
RECURSIVE DescendIn(_, _, _, _)
DescendIn(executed, affected, s, stack) ==
  LET open == {i \in DOMAIN deps[s] : /\ deps[s][i] \notin executed
                                       /\ deps[s][i] \in StepIds
                                       /\ deps[s][i] \in affected}
      i == IF open = {} THEN 0 ELSE CHOOSE k \in open : \A j \in open : k <= j
  IN IF i # 0
       THEN IF deps[s][i] \in stack \cup {s}
              THEN Overflow
              ELSE DescendIn(executed, affected, deps[s][i], stack \cup {s})
       ELSE IF s \in executed THEN 0 ELSE s

\* The next step the re-run sets running; 0 when its loop is over. The
\* designer loops over the affected steps not yet executed, the manager
\* walks the affected steps once in ascending order (`after`: the last one).
RerunTarget(kind, executed, affected, after) ==
  IF kind = "designer" THEN
    LET rest == affected \ executed
    IN IF rest = {} THEN 0
       ELSE DescendIn(executed, affected, CHOOSE s \in rest : \A t \in rest : s <= t, {})
  ELSE
    LET rest == {s \in affected : s > after /\ s \notin executed}
    IN IF rest = {} THEN 0 ELSE CHOOSE s \in rest : \A t \in rest : s <= t

\* Continue the re-run: set the next step running and call the endpoint with
\* the results collected so far, or settle.
RerunAdvance(kind, executed, results, affected, after, status, gen) ==
  LET t == RerunTarget(kind, executed, affected, after)
  IN IF t = 0 \/ t = Overflow THEN
       /\ wfPc' = IF t = 0 THEN "resolved" ELSE "rejected"
       /\ cur' = 0
       /\ stepStatus' = status
       /\ UNCHANGED <<apiCalls, supplied>>
     ELSE
       /\ wfPc' = "calling" /\ cur' = t
       /\ stepStatus' = [status EXCEPT ![t] = "running"]
       /\ apiCalls' = [apiCalls EXCEPT ![t] = Min2(@ + 1, 2)]
       /\ supplied' = [supplied EXCEPT ![t] =
            [d \in DepSet(t) |-> IF d \in results THEN gen[d] ELSE 0]]

\* reExecuteFromStep up to its first suspension (kind: "designer" for
\* WorkflowDesigner, "manager" for WorkflowGroupManager).
ReExecuteFromStep(kind, start) ==
  /\ wfPc # "calling"
  /\ LET affected == IF kind = "designer" THEN GetAffectedSteps({start}, NumSteps)
                      ELSE StepsFromOrder(start)
         status == [s \in StepIds |-> IF s \in affected THEN "pending" ELSE stepStatus[s]]
         result == [s \in StepIds |-> IF s \in affected THEN "none" ELSE stepResult[s]]
         gen == [s \in StepIds |-> IF result[s] = "none" THEN 0 ELSE 1]
         kept == {s \in StepIds \ affected : status[s] = "success" /\ result[s] # "none"}
     IN /\ rerun' = [kind |-> kind, start |-> start, affected |-> affected,
                      allOk |-> \A s \in StepIds : stepStatus[s] = "success"]
        /\ stepResult' = result
        /\ resultGen' = gen
        /\ executedSteps' = kept
        /\ stepResults' = kept
        /\ LET zero == [s \in StepIds |-> 0]
               none == [s \in StepIds |-> <<>>]
               t == RerunTarget(kind, kept, affected, 0)
           IN IF t = 0 \/ t = Overflow THEN
                /\ wfPc' = IF t = 0 THEN "resolved" ELSE "rejected"
                /\ cur' = 0 /\ stepStatus' = status
                /\ apiCalls' = zero /\ supplied' = none
              ELSE
                /\ wfPc' = "calling" /\ cur' = t
                /\ stepStatus' = [status EXCEPT ![t] = "running"]
                /\ apiCalls' = [zero EXCEPT ![t] = 1]
                /\ supplied' = [none EXCEPT ![t] =
                     [d \in DepSet(t) |-> IF d \in kept THEN gen[d] ELSE 0]]
  /\ UNCHANGED <<deps, startedOk, templates, doc, runVars, directVars, promptVars, schedVars>>

\* The step's call returned in a re-run: its result is stored and the re-run
\* goes on.
RerunStepSucceeds ==
  /\ wfPc = "calling"
  /\ rerun.kind # "none"
  /\ stepResult' = [stepResult EXCEPT ![cur] = "ok"]
  /\ resultGen' = [resultGen EXCEPT ![cur] = 2]
  /\ executedSteps' = executedSteps \cup {cur}
  /\ stepResults' = stepResults \cup {cur}
  /\ RerunAdvance(rerun.kind, executedSteps \cup {cur}, stepResults \cup {cur},
                  rerun.affected, cur, [stepStatus EXCEPT ![cur] = "success"],
                  [resultGen EXCEPT ![cur] = 2])
  /\ UNCHANGED <<deps, startedOk, templates, doc, rerun, runVars, directVars,
                 promptVars, schedVars>>

\* The step's call threw in a re-run: the designer rethrows and the re-run
\* is over, the manager goes on with the next step.
RerunStepFails ==
  /\ wfPc = "calling"
  /\ rerun.kind # "none"
  /\ stepResult' = [stepResult EXCEPT ![cur] = "err"]
  /\ resultGen' = [resultGen EXCEPT ![cur] = 2]
  /\ IF rerun.kind = "designer" THEN
       /\ stepStatus' = [stepStatus EXCEPT ![cur] = "error"]
       /\ wfPc' = "rejected"
       /\ cur' = 0
       /\ UNCHANGED <<apiCalls, supplied>>
     ELSE
       RerunAdvance(rerun.kind, executedSteps, stepResults, rerun.affected, cur,
                    [stepStatus EXCEPT ![cur] = "error"], [resultGen EXCEPT ![cur] = 2])
  /\ UNCHANGED <<deps, executedSteps, stepResults, startedOk, templates, doc, rerun,
                 runVars, directVars, promptVars, schedVars>>

\* A workflow built in the step form, after a full run in which every step
\* succeeded.
RerunInit ==
  /\ deps \in EditorDeps
  /\ stepStatus = [s \in StepIds |-> "success"]
  /\ stepResult = [s \in StepIds |-> "ok"]
  /\ wfPc = "resolved"
  /\ cur = 0
  /\ executedSteps = StepIds
  /\ stepResults = StepIds
  /\ apiCalls = [s \in StepIds |-> 1]
  /\ startedOk = [s \in StepIds |-> "yes"]
  /\ templates = 0
  /\ doc = [groupSteps |-> [s \in StepIds |-> [status |-> "pending", result |-> "none"]],
            templates |-> <<>>]
  /\ runner = "designer"
  /\ progress = 100
  /\ DirectIdle
  /\ rerun = NoRerun
  /\ resultGen = [s \in StepIds |-> 1]
  /\ supplied = [s \in StepIds |-> <<>>]
  /\ SchedIdle

RerunNext ==
  \/ \E kind \in {"designer", "manager"}, start \in StepIds : ReExecuteFromStep(kind, start) /\ UNCHANGED extraVars
  \/ RerunStepSucceeds /\ UNCHANGED extraVars
  \/ RerunStepFails /\ UNCHANGED extraVars

SpecRerun == RerunInit /\ [][RerunNext]_vars

\* ------------------------------------------------------------------------
\* Full runs, reExecuteFromStep and reExecuteStep on one workflow (SpecStep)
\* ------------------------------------------------------------------------
\* updateStep with every step given the new value.
UpdateStepAll(field, s, v) == [t \in StepIds |-> v]

\* updateStep(stepId, updates) of the designer, and the assignments to the
\* step object of the manager: the field of step s gets v, the other steps
\* keep theirs.
UpdateStep(field, s, v) == [field EXCEPT ![s] = v]

\* The changes of step.status an operation step made, when it first wrote
\* `mid` (its reset) and then `after`.
Writes(o, before, mid, after) ==
  {[op |-> o, step |-> s, from |-> before[s], to |-> mid[s]] :
     s \in {t \in StepIds : before[t] # mid[t]}}
  \cup
  {[op |-> o, step |-> s, from |-> mid[s], to |-> after[s]] :
     s \in {t \in StepIds : mid[t] # after[t]}}

\* reExecuteStep has none of the variables of a run: no executedSteps, no
\* stepResults, no set of steps to re-execute; every result it finds is one
\* from before.
NoRunLeft ==
  /\ executedSteps' = {}
  /\ stepResults' = {}
  /\ startedOk' = [t \in StepIds |-> "none"]
  /\ rerun' = NoRerun
  /\ resultGen' = [t \in StepIds |-> IF stepResult'[t] = "none" THEN 0 ELSE 1]
  /\ supplied' = [t \in StepIds |-> <<>>]

\* reExecuteStep up to its first suspension (kind: "designer" for
\* WorkflowDesigner, "manager" for WorkflowGroupManager).
ReExecuteStep(kind, s) ==
  LET
    \* The dependencies of s that reExecuteStep does not accept: the step is not
    \* found, its status is not success or it has no result.
    MissingDependencies ==
      {d \in DepSet(s) :
         ~(d \in StepIds /\ stepStatus[d] = "success" /\ stepResult[d] # "none")}
    \* The designer returns when a dependency is missing.
    ExecutesAnyway(missing) == kind = "manager" \/ missing = {}
  IN
  /\ wfPc # "calling"
  /\ LET missing == MissingDependencies
         executes == ExecutesAnyway(missing)
     IN /\ single' = [kind |-> kind, step |-> s, missing |-> missing,
                       executed |-> executes]
        /\ op' = "step"
        /\ IF executes THEN
             /\ stepStatus' = UpdateStep(stepStatus, s, "running")
             /\ stepResult' = UpdateStep(stepResult, s, "none")
             /\ wfPc' = "calling" /\ cur' = s
             /\ apiCalls' = [t \in StepIds |-> IF t = s THEN 1 ELSE 0]
           ELSE
             /\ wfPc' = "resolved" /\ cur' = 0
             /\ UNCHANGED <<stepStatus, stepResult, apiCalls>>
  /\ statusWrites' = Writes("step", stepStatus, stepStatus, stepStatus')
  /\ NoRunLeft
  /\ UNCHANGED <<deps, templates, doc, runVars, directVars, promptVars, schedVars,
                 taskVars, materializeVars, listVars, moreVars>>

\* The call of reExecuteStep returned a result, or it threw and the catch
\* stored the error: the step gets its status and result, and the call is over.
ReExecuteStepSettles(ok) ==
  /\ wfPc = "calling"
  /\ op = "step"
  /\ stepStatus' = UpdateStep(stepStatus, cur, IF ok THEN "success" ELSE "error")
  /\ stepResult' = UpdateStep(stepResult, cur, IF ok THEN "ok" ELSE "err")
  /\ wfPc' = "resolved"
  /\ cur' = 0
  /\ statusWrites' = Writes("step", stepStatus, stepStatus, stepStatus')
  /\ NoRunLeft
  /\ UNCHANGED <<deps, apiCalls, templates, doc, runVars, directVars, promptVars,
                 schedVars, taskVars, materializeVars, listVars, moreVars, op, single>>

\* executeWorkflowWithRealAPI starts: every step is set pending, then the
\* first step running.
StepRunStarts ==
  /\ StartRun
  /\ op' = "run"
  /\ statusWrites' = Writes("run", stepStatus, [s \in StepIds |-> "pending"], stepStatus')
  /\ single' = [kind |-> "none", step |-> 0, missing |-> {}, executed |-> FALSE]
  /\ rerun' = NoRerun
  /\ resultGen' = [s \in StepIds |-> 0]
  /\ supplied' = [s \in StepIds |-> <<>>]
  /\ UNCHANGED <<runVars, directVars, promptVars, taskVars, materializeVars, listVars, moreVars>>

\* A step of the full run settles.
StepRunSettles(ok) ==
  /\ op = "run"
  /\ IF ok THEN StepSucceeds ELSE StepFails
  /\ statusWrites' = Writes("run", stepStatus, stepStatus, stepStatus')
  /\ UNCHANGED <<runVars, rerunVars, directVars, promptVars, taskVars, materializeVars,
                 listVars, moreVars, op, single>>

\* reExecuteFromStep starts: the steps to re-execute are set pending, then
\* the first of them running.
StepRerunStarts(kind, start) ==
  /\ ReExecuteFromStep(kind, start)
  /\ op' = "from"
  /\ statusWrites' =
       Writes("from", stepStatus,
              [s \in StepIds |-> IF s \in rerun'.affected THEN "pending" ELSE stepStatus[s]],
              stepStatus')
  /\ single' = [kind |-> "none", step |-> 0, missing |-> {}, executed |-> FALSE]
  /\ UNCHANGED <<taskVars, materializeVars, listVars, moreVars>>

\* A step of reExecuteFromStep settles.
StepRerunSettles(ok) ==
  /\ op = "from"
  /\ IF ok THEN RerunStepSucceeds ELSE RerunStepFails
  /\ statusWrites' = Writes("from", stepStatus, stepStatus, stepStatus')
  /\ UNCHANGED <<taskVars, materializeVars, listVars, moreVars, op, single>>

\* A workflow built in the step form, before its first run.
StepInit ==
  /\ deps \in EditorDeps
  /\ WfInit

StepNext ==
  \/ StepRunStarts
  \/ \E ok \in BOOLEAN : StepRunSettles(ok)
  \/ \E kind \in {"designer", "manager"}, start \in StepIds : StepRerunStarts(kind, start)
  \/ \E ok \in BOOLEAN : StepRerunSettles(ok)
  \/ \E kind \in {"designer", "manager"}, s \in StepIds : ReExecuteStep(kind, s)
  \/ \E ok \in BOOLEAN : ReExecuteStepSettles(ok)

SpecStep == StepInit /\ [][StepNext]_vars

\* ------------------------------------------------------------------------
\* POST /api/process-file-direct (SpecDirect, SpecLoop)
\* ------------------------------------------------------------------------
\* Text is a sequence of tokens: "F" a run of three backticks, "n" a line
\* break, " " a blank, "a" any other character.
Chars == {"F", "n", " ", "a"}
Blank == {"n", " "}
\* String.prototype.trim.
RECURSIVE TrimLeft(_)
TrimLeft(t) == IF t # <<>> /\ Head(t) \in Blank THEN TrimLeft(Tail(t)) ELSE t
RECURSIVE TrimRight(_)
TrimRight(t) ==
  IF t # <<>> /\ t[Len(t)] \in Blank THEN TrimRight(SubSeq(t, 1, Len(t) - 1)) ELSE t
Trim(t) == TrimRight(TrimLeft(t))

Positions(t, c, from) == {i \in DOMAIN t : i > from /\ t[i] = c}
Least(S) == CHOOSE i \in S : \A j \in S : i <= j

\* extractContentFromMarkdown returning the trimmed text when nothing matches.
ExtractOrTrim(markdown) ==
  IF Cardinality(Positions(markdown, "F", 0)) >= 2
    THEN Trim(SubSeq(markdown, Least(Positions(markdown, "F", 0)) + 1,
                     Least(Positions(markdown, "F", Least(Positions(markdown, "F", 0)))) - 1))
    ELSE Trim(markdown)

\* extractContentFromMarkdown: the leftmost match of
\* /```(?:.*?\n)?([\s\S]*?)```/s. The match starts at the first fence that
\* has a fence after it; the optional group takes the text up to the first
\* line break that still has a fence after it (with the s flag `.` also
\* matches line breaks and backticks); the capture ends at the next fence.
ExtractContentFromMarkdown(markdown) ==
  LET fences == Positions(markdown, "F", 0)
  IN IF Cardinality(fences) < 2 THEN markdown
     ELSE
       LET open == Least(fences)
           breaks == {q \in Positions(markdown, "n", open) :
                        Positions(markdown, "F", q) # {}}
           from == IF breaks = {} THEN open ELSE Least(breaks)
           close == Least(Positions(markdown, "F", from))
       IN Trim(SubSeq(markdown, from + 1, close - 1))

ContinuationPrompt == [role |-> "user", content |-> <<"P">>]

\* The request arrives: the inputs are read and joined, the two first
\* messages are built.
ProcessFileDirect ==
  LET
    SystemMessage == [role |-> "system", content |-> <<"S">>]
    UserMessage == [role |-> "user", content |-> <<"U">>]
  IN
  /\ dpc # "requesting"
  /\ dpc' = "requesting"
  /\ messages' = <<SystemMessage, UserMessage>>
  /\ aiContent' = <<>>
  /\ finishReason' = "undefined"
  /\ requests' = 0
  /\ iterations' = <<>>
  /\ written' = [set |-> FALSE, content |-> <<>>]
  /\ UNCHANGED <<deps, stepStatus, stepResult, wfPc, cur, executedSteps, stepResults,
                 apiCalls, startedOk, templates, doc, runVars, rerunVars, promptVars, schedVars>>

\* aiContent += currentIterationContent, with the continuation prompt added
\* to the text as well.
AccumulateWithPrompt(text, content, reason) ==
  text \o content \o (IF reason = "length" THEN ContinuationPrompt.content ELSE <<>>)

\* aiContent += currentIterationContent.
Accumulate(text, content, reason) == text \o content

\* One pass of the do-while loop: a completion is requested and its stream
\* read to the end. `content` is the concatenation of the stream's content
\* deltas, `reason` the finish_reason of its chunks ("none": no chunk had
\* one, finishReason keeps its value). On 'length' the partial answer and
\* the continuation prompt are pushed and the loop goes on, otherwise the
\* extracted content is written and returned.
StreamEnds(content, reason) ==
  /\ dpc = "requesting"
  /\ requests' = requests + 1
  /\ iterations' = Append(iterations, [content |-> content, reason |-> reason])
  /\ LET fr == IF reason = "none" THEN finishReason ELSE reason
         text == Accumulate(aiContent, content, fr)
     IN /\ finishReason' = fr
        /\ aiContent' = text
        /\ IF fr = "length" THEN
             /\ messages' = messages \o <<[role |-> "assistant", content |-> content],
                                           ContinuationPrompt>>
             /\ UNCHANGED <<dpc, written>>
           ELSE
             /\ dpc' = "done"
             /\ written' = [set |-> TRUE, content |-> ExtractContentFromMarkdown(text)]
             /\ UNCHANGED messages
  /\ UNCHANGED <<deps, stepStatus, stepResult, wfPc, cur, executedSteps, stepResults,
                 apiCalls, startedOk, templates, doc, runVars, rerunVars, promptVars, schedVars>>

\* The completion request or its stream throws: the handler answers 500 and
\* writes nothing.
StreamFails ==
  /\ dpc = "requesting"
  /\ dpc' = "failed"
  /\ requests' = requests + 1
  /\ UNCHANGED <<messages, aiContent, finishReason, iterations, written>>
  /\ UNCHANGED <<deps, stepStatus, stepResult, wfPc, cur, executedSteps, stepResults,
                 apiCalls, startedOk, templates, doc, runVars, rerunVars, promptVars, schedVars>>

DirectNext ==
  LET
    Texts(n) == UNION {[1..k -> Chars] : k \in 0..n}
    FinishReasons == {"length", "stop", "none"}
  IN
  \/ ProcessFileDirect /\ UNCHANGED extraVars
  \/ \E content \in Texts(MaxDelta), reason \in FinishReasons :
       requests < MaxRequests /\ StreamEnds(content, reason) /\ UNCHANGED extraVars
  \/ requests < MaxRequests /\ StreamFails /\ UNCHANGED extraVars

SpecDirect == SchedInit /\ [][DirectNext]_vars

\* The loop alone, with streams that are empty or hold one character.
LoopNext ==
  \/ ProcessFileDirect /\ UNCHANGED extraVars
  \/ \E content \in {<<>>, <<"a">>}, reason \in {"length", "stop"} :
       requests < LoopRequests /\ StreamEnds(content, reason) /\ UNCHANGED extraVars

SpecLoop == SchedInit /\ [][LoopNext]_vars

\* ------------------------------------------------------------------------
\* The inputs executeStepWithAPI builds from the prompt inputs (SpecPrompt)
\* ------------------------------------------------------------------------
\* A prompt's content is a sequence of tokens: words, blanks, and the file
\* references {{A}}, {{B}}, {{C}}. The step declares the file inputs A and B.
FileRefs == {"{{A}}", "{{B}}", "{{C}}"}
FilePathMap == [r \in {"{{A}}", "{{B}}"} |-> IF r = "{{A}}" THEN "pathOfA" ELSE "pathOfB"]

PromptPart(text) == [type |-> "prompt", value |-> text]
FilePart(path) == [type |-> "file", value |-> <<path>>]

\* The text before a reference, pushed without trim().
BeforePromptUntrimmed(remaining, pos) == SubSeq(remaining, 1, pos - 1)

\* remainingContent.substring(0, refIndex).trim()
BeforePrompt(remaining, pos) == Trim(SubSeq(remaining, 1, pos - 1))

\* The loop over fileReferences and the push of what remains after it.
RECURSIVE SplitPrompt(_, _, _)
SplitPrompt(refs, remaining, out) ==
  IF refs = <<>> THEN
    [ok |-> TRUE,
     inputs |-> IF Trim(remaining) # <<>> THEN Append(out, PromptPart(Trim(remaining)))
                ELSE out]
  ELSE IF Head(refs) \notin DOMAIN FilePathMap THEN [ok |-> FALSE, inputs |-> <<>>]
  ELSE
    LET pos == Least(Positions(remaining, Head(refs), 0))
        before == BeforePrompt(remaining, pos)
        withBefore == IF pos > 1 /\ before # <<>> THEN Append(out, PromptPart(before))
                      ELSE out
    IN SplitPrompt(Tail(refs), SubSeq(remaining, pos + 1, Len(remaining)),
                   Append(withBefore, FilePart(FilePathMap[Head(refs)])))

\* The loop over promptInputs.
RECURSIVE BuildInputs(_, _)
BuildInputs(prompts, out) ==
  LET
    IsFileRef(c) == c \in FileRefs
    \* content.match(/\{\{([^}]+)\}\}/g) || []
    FileReferences(content) == SelectSeq(content, IsFileRef)
  IN
  IF prompts = <<>> THEN [ok |-> TRUE, inputs |-> out]
  ELSE
    LET content == Head(prompts)
        refs == FileReferences(content)
        one == IF refs = <<>> THEN [ok |-> TRUE, inputs |-> Append(out, PromptPart(content))]
               ELSE SplitPrompt(refs, content, out)
    IN IF one.ok THEN BuildInputs(Tail(prompts), one.inputs) ELSE [ok |-> FALSE, inputs |-> <<>>]

\* executeStepWithAPI for a step with the prompt inputs `prompts`, up to the
\* post of the request (or the throw). One call is followed: a call reads
\* nothing that an earlier call wrote.
ExecuteStepWithAPI(prompts) ==
  /\ ppc = "idle"
  /\ promptInputs' = prompts
  /\ LET built == IF prompts = <<>> THEN [ok |-> FALSE, inputs |-> <<>>] ELSE BuildInputs(prompts, <<>>)
     IN /\ ppc' = IF built.ok THEN "sent" ELSE "error"
        /\ processedInputs' = built.inputs
  /\ UNCHANGED <<deps, stepStatus, stepResult, wfPc, cur, executedSteps, stepResults,
                 apiCalls, startedOk, templates, doc, runVars, rerunVars, directVars,
                 schedVars>>

\* The prompt of scenario C: "alpha {{A}} beta {{B}} gamma".
ScenarioPrompt == <<"alpha", " ", "{{A}}", " ", "beta", " ", "{{B}}", " ", "gamma">>

PromptNext ==
  LET
    Words == {"alpha", "beta", "gamma"}
    PromptChars == Words \cup {" "} \cup FileRefs
    PromptTexts(n) == UNION {[1..k -> PromptChars] : k \in 0..n}
    PromptLists ==
      UNION {[1..k -> PromptTexts(MaxPromptLen) \cup {ScenarioPrompt}] : k \in 0..MaxPrompts}
  IN
  \E prompts \in PromptLists : ExecuteStepWithAPI(prompts) /\ UNCHANGED extraVars

SpecPrompt == SchedInit /\ [][PromptNext]_vars

\* ------------------------------------------------------------------------
\* handleAdvancedBatchCreate: tasks made from a template and selected files
\* (SpecMaterialize)
\* ------------------------------------------------------------------------
\* String.prototype.split(sep): always at least one part.
RECURSIVE SplitFrom(_, _, _, _)
SplitFrom(str, sep, i, part) ==
  IF i > Len(str) THEN <<part>>
  ELSE IF str[i] = sep THEN <<part>> \o SplitFrom(str, sep, i + 1, <<>>)
  ELSE SplitFrom(str, sep, i + 1, Append(part, str[i]))
Split(str, sep) == SplitFrom(str, sep, 1, <<>>)

\* Array.prototype.join(sep)
RECURSIVE Join(_, _)
Join(parts, sep) ==
  IF parts = <<>> THEN <<>>
  ELSE IF Len(parts) = 1 THEN parts[1]
  ELSE parts[1] \o <<sep>> \o Join(Tail(parts), sep)

\* parts.pop() of a non-empty array / what is left of the array after it.
Last(parts) == parts[Len(parts)]
ButLast(parts) == SubSeq(parts, 1, Len(parts) - 1)

\* String.prototype.includes(sub)
Includes(str, sub) ==
  \E i \in 0..Len(str) : i + Len(sub) <= Len(str) /\ SubSeq(str, i + 1, i + Len(sub)) = sub
HasChar(str, c) == \E i \in 1..Len(str) : str[i] = c

\* str.replace(/c/g, by) for a one-token pattern
ReplaceAll(str, c, by) == [i \in 1..Len(str) |-> IF str[i] = c THEN by ELSE str[i]]

\* a || b for strings: the empty string is falsy
OrElse(a, b) == IF a # <<>> THEN a ELSE b

\* What handleAdvancedBatchCreate derives from the file of a selection.
FileName(fullFilePath) ==
  OrElse(Last(Split(Last(Split(fullFilePath, "/")), "\\")),
         OrElse(Last(Split(fullFilePath, "\\")), fullFilePath))

FileNameWithoutExt(fileName) ==
  LET
    \* str.substring(0, str.lastIndexOf(c)) for a string that holds c
    BeforeLast(str, c) ==
      SubSeq(str, 1, (CHOOSE i \in 1..Len(str) :
                        str[i] = c /\ \A j \in (i + 1)..Len(str) : str[j] # c) - 1)
  IN
  IF HasChar(fileName, ".") THEN BeforeLast(fileName, ".") ELSE fileName

FileRelativePrefix(fullFilePath) ==
  LET filePathParts == IF Len(Split(fullFilePath, "/")) > 1 THEN Split(fullFilePath, "/")
                       ELSE Split(fullFilePath, "\\")
  IN IF Len(filePathParts) > 1 THEN Join(ButLast(filePathParts), "/") ELSE <<>>

\* A file name left as it is (no upper-casing of its first character).
FinalFileNameAsIs(fileNameWithoutExt) == fileNameWithoutExt

FinalFileName(fileNameWithoutExt) ==
  LET
    \* A string is a sequence of tokens: the separators "\\", "/" and ".", the
    \* dash, the placeholder "{fileName}", and words that stand for a run of other
    \* characters. Upper(w) is w with its first character in upper case.
    Upper(w) == CASE w = "bar" -> "Bar" [] w = "foo" -> "Foo" [] OTHER -> w
  IN
  IF fileNameWithoutExt = <<>> THEN <<>>
  ELSE <<Upper(Head(fileNameWithoutExt))>> \o Tail(fileNameWithoutExt)

\* groupName
GroupName(values, finalFileName) ==
  LET
    \* str.replace(c, by): the first occurrence of the token c gives way to the string by
    ReplaceFirst(str, c, by) ==
      IF ~HasChar(str, c) THEN str
      ELSE LET i == Least(Positions(str, c, 0))
           IN SubSeq(str, 1, i - 1) \o by \o SubSeq(str, i + 1, Len(str))
    \* The default of namePrefix (the two-character word for "task").
    DefaultPrefix == <<"renwu">>
  IN
  IF values.namePattern # <<>>
    THEN ReplaceFirst(values.namePattern, "{fileName}", finalFileName)
    ELSE OrElse(values.namePrefix, DefaultPrefix) \o <<"-">> \o finalFileName

\* A path that takes the file of the selection under sourcePath whatever the
\* input is called.
InputPathAlwaysSource(input, sourcePath, fullFilePath) == sourcePath \o <<"\\">> \o fullFilePath

\* The new path of a file input that has a path and is not the API document.
InputPath(input, sourcePath, fullFilePath) ==
  LET fileName == FileName(fullFilePath)
      finalFileName == FinalFileName(FileNameWithoutExt(fileName))
      fileRelativePrefix == FileRelativePrefix(fullFilePath)
      prefix == ReplaceAll(fileRelativePrefix, "/", "\\")
      pathParts == Split(input.path, "\\")
      originalFileName == Last(pathParts)
      directory == Join(ButLast(pathParts), "\\")
      originalExtension == IF HasChar(originalFileName, ".")
                             THEN <<".">> \o Last(Split(originalFileName, "."))
                             ELSE <<>>
      newFileName == IF originalExtension = <<".", "jsp">> THEN fileName
                     ELSE finalFileName \o originalExtension
      finalDirectory == IF fileRelativePrefix # <<>> /\ ~Includes(directory, prefix)
                          THEN IF directory # <<>> THEN directory \o <<"\\">> \o prefix
                               ELSE prefix
                          ELSE directory
  IN IF input.name = "jsp" /\ originalExtension = <<".", "jsp">>
       THEN sourcePath \o <<"\\">> \o fullFilePath
       ELSE finalDirectory \o <<"\\">> \o newFileName

\* The task made for the k-th selected file.
NewGroup(template, selection, values, k) ==
  LET
    \* The step of the template as the task k gets it: a new step object with a
    \* new config and a new fileInputs array; promptInputs and dependencies are
    \* carried over by the spread.
    ModifiedStep(step, sourcePath, fullFilePath) ==
      LET
        \* newOutputFileName of a step that has an outputFileName
        OutputFileName(currentOutputName) ==
          LET finalFileName == FinalFileName(FileNameWithoutExt(FileName(fullFilePath)))
              fileExtension == IF HasChar(currentOutputName, ".")
                                 THEN Last(Split(currentOutputName, ".")) ELSE <<>>
          IN IF currentOutputName = <<>> THEN currentOutputName
             ELSE IF fileExtension # <<>>
               THEN values.namePrefix \o finalFileName \o <<".">> \o fileExtension
               ELSE values.namePrefix \o finalFileName
        \* outputFolder of a step that has one: the directory of the file is added
        \* when the folder does not hold it yet
        OutputFolder(outputFolder) ==
          LET prefix == ReplaceAll(FileRelativePrefix(fullFilePath), "/", "\\")
          IN IF outputFolder # <<>> /\ prefix # <<>> /\ ~Includes(outputFolder, prefix)
               THEN outputFolder \o <<"\\">> \o prefix
               ELSE outputFolder
        \* One file input of a step as the task k gets it. ref names the object: 0 is
        \* the template's own object, k an object made for task k.
        ModifiedInput(input) ==
          \* "jiekouwendang" stands for the four-character name "API document"
          IF input.name = "jiekouwendang" THEN input
          ELSE IF input.path # <<>>
            THEN [input EXCEPT !.path = InputPath(input, sourcePath, fullFilePath), !.ref = k]
            ELSE input
      IN
      [ref |-> k,
       config |-> [ref |-> k,
                   fileInputsRef |-> k,
                   fileInputs |-> [i \in 1..Len(step.config.fileInputs) |->
                      ModifiedInput(step.config.fileInputs[i])],
                   promptInputsRef |-> step.config.promptInputsRef,
                   outputFileName |-> OutputFileName(step.config.outputFileName),
                   outputFolder |-> OutputFolder(step.config.outputFolder)]]
  IN
  LET fileName == FileName(selection.file)
      finalFileName == FinalFileName(FileNameWithoutExt(fileName))
  IN [name |-> GroupName(values, finalFileName),
      template |-> [ref |-> k,
                    workflowRef |-> k,
                    step |-> ModifiedStep(template.step, selection.sourcePath, selection.file)]]

\* The inputs the model draws from: the files of a selection ...
\* handleAdvancedBatchCreate up to the save of the new task list. One call is
\* followed: a call reads nothing that an earlier call wrote.
HandleAdvancedBatchCreate(template, selectedFiles, values) ==
  /\ mpc = "idle"
  /\ batchCreate' = [template |-> template, selectedFiles |-> selectedFiles,
                     values |-> values]
  /\ IF selectedFiles = <<>>
       THEN mpc' = "rejected" /\ newGroups' = <<>>
       ELSE /\ mpc' = "created"
            /\ newGroups' = [k \in 1..Len(selectedFiles) |->
                               NewGroup(template, selectedFiles[k], values, k)]
  /\ UNCHANGED <<wfVars, schedVars, taskVars, listVars, moreVars, stepVars>>

MaterializeNext ==
  LET
    Files ==
      { <<"sub", "\\", "bar", ".", "jsp">>, <<"sub", "/", "bar", ".", "jsp">>,
        <<"bar", ".", "jsp">>, <<"Foo", ".", "jsp">>, <<"bar">> }
    Selections ==
      UNION {[1..n -> [sourcePath : {<<"C:", "\\", "root">>}, file : Files]] : n \in 0..MaxSelections}
    \* ... the one file input of the template's step ...
    InputNames == {"src", "jsp", "jiekouwendang"}
    InputPaths ==
      { <<>>, <<"C:", "\\", "old", "\\", "Foo", ".", "jsp">>,
        <<"C:", "\\", "old", "\\", "Foo", ".", "tsx">>,
        <<"C:", "\\", "old", "\\", "sub", "\\", "Foo", ".", "jsp">>,
        <<"Foo", ".", "jsp">> }
    OutputFileNames == { <<"Transformed", ".", "tsx">>, <<"Transformed">> }
    OutputFolders == { <<"C:", "\\", "out">>, <<"C:", "\\", "out", "\\", "sub">> }
    Templates ==
      { [ref |-> 0, workflowRef |-> 0,
         step |-> [ref |-> 0,
                   config |-> [ref |-> 0, fileInputsRef |-> 0,
                               fileInputs |-> <<[name |-> n, path |-> p, ref |-> 0]>>,
                               promptInputsRef |-> 0,
                               outputFileName |-> o, outputFolder |-> f]]] :
        n \in InputNames, p \in InputPaths, o \in OutputFileNames, f \in OutputFolders }
    \* ... and the values of the form.
    FormValues ==
      [namePrefix : {<<>>, <<"Task", "-">>, <<"Task">>},
       namePattern : {<<>>, <<"{fileName}", "-", "job">>}]
  IN
  \E template \in Templates, selectedFiles \in Selections, values \in FormValues :
    HandleAdvancedBatchCreate(template, selectedFiles, values)

SpecMaterialize == SchedInit /\ [][MaterializeNext]_vars

\* ------------------------------------------------------------------------
\* POST /api/list-files (SpecList)
\* ------------------------------------------------------------------------
GetFiles(folderPath, fileType) ==
  LET
    \* The entries a folder can have, in the order readdir gives them: four files
    \* and the directory lib, which can hold one file.
    TopFiles == << <<"a", ".", "js">>, <<"b", ".", "tsx">>, <<".", "js">>, <<"c">> >>
    LibFile == <<"d", ".", "js">>
    HasTopFile(i) == ((folderPath - 1) \div (2 ^ (i - 1))) % 2 = 1
    HasLib == folderPath > 16
    \* path.extname of a file name: from its last dot on, nothing for a name
    \* without a dot or with its only dot in front.
    ExtName(name) ==
      IF ~HasChar(name, ".") THEN <<>>
      ELSE LET i == CHOOSE i \in 1..Len(name) :
                      name[i] = "." /\ \A j \in (i + 1)..Len(name) : name[j] # "."
           IN IF i = 1 THEN <<>> ELSE SubSeq(name, i, Len(name))
    \* The extension a file must have for fileType: `.${fileType}`
    WantedExt == <<".">> \o fileType
    \* getFiles of the directory lib of a folder, as paths relative to the folder
    GetLibFiles ==
      IF HasLib /\ ExtName(LibFile) = WantedExt
        THEN << <<"lib", "/">> \o LibFile >>
        ELSE <<>>
    \* getFiles(folderPath, fileType) followed by path.relative: the files of the
    \* folder with the wanted extension, in directory order, those of lib last.
    RECURSIVE GetTopFiles(_)
    GetTopFiles(i) ==
      IF i > Len(TopFiles) THEN <<>>
      ELSE (IF HasTopFile(i) /\ ExtName(TopFiles[i]) = WantedExt
              THEN <<TopFiles[i]>> ELSE <<>>)
           \o GetTopFiles(i + 1)
  IN
  GetTopFiles(1) \o GetLibFiles

\* POST /api/list-files
ListFiles(folderPath, fileType) ==
  /\ Len(listed) < MaxListCalls
  /\ listed' = Append(listed,
       [folderPath |-> folderPath, fileType |-> fileType,
        status |-> IF fileType = <<>> \/ folderPath = 0 THEN 400 ELSE 200,
        data |-> IF fileType = <<>> \/ folderPath = 0 THEN <<>>
                 ELSE GetFiles(folderPath, fileType)])
  /\ UNCHANGED <<wfVars, schedVars, taskVars, materializeVars, stepVars, moreVars>>

ListNext ==
  LET
    \* The folders of the disk: folder 0 does not exist; the others hold every
    \* choice of the four files, without the directory lib (1..16) or with it and
    \* its file (17..32).
    FolderPaths == 0..32
    FileTypes == { <<>>, <<"js">>, <<".", "js">>, <<"tsx">>, <<".", "tsx">> }
  IN
  \E folderPath \in FolderPaths, fileType \in FileTypes : ListFiles(folderPath, fileType)

SpecList == SchedInit /\ [][ListNext]_vars

\* ------------------------------------------------------------------------
\* The edit operations on workflows (SpecEdit)
\* ------------------------------------------------------------------------
\* addStep: a new step without dependencies at the end of the workflow.
AddStep(w) ==
  /\ Len(workflows[w]) < NumSteps
  /\ nextId <= MaxIds
  /\ workflows' = [workflows EXCEPT ![w] =
       Append(@, [id |-> nextId, dependencies |-> {}, dependsOn |-> 0])]
  /\ nextId' = nextId + 1
  /\ UNCHANGED <<wfVars, schedVars, taskVars, materializeVars, listVars, stepVars,
                 configFile, saves, saveCount, fileExists, groupTemplate, templateSteps,
                 executing, isRunning, stopped, conversionQueue, allTasksCompleted,
                 inFlight, submissions, retries>>

\* handleSave of the step form, passed to updateStep: the dependencies and
\* the dependsOn of the file input are what the form holds. Both selects
\* start with the step's values and offer availableDependencies, the steps
\* of lower order.
HandleSave(w, i, dependencies, dependsOn) ==
  LET step == workflows[w][i]
      availableDependencies == {workflows[w][j].id : j \in 1..(i - 1)}
  IN /\ dependencies \subseteq availableDependencies \cup step.dependencies
     /\ dependsOn \in availableDependencies \cup {0, step.dependsOn}
     /\ workflows' = [workflows EXCEPT ![w][i] =
          [id |-> step.id, dependencies |-> dependencies, dependsOn |-> dependsOn]]
     /\ UNCHANGED <<nextId, wfVars, schedVars, taskVars, materializeVars, listVars,
                    stepVars, configFile, saves, saveCount, fileExists, groupTemplate,
                    templateSteps, executing, isRunning, stopped, conversionQueue,
                    allTasksCompleted, inFlight, submissions, retries>>

\* deleteStep: the step is filtered out, the others are given their new
\* order and lose the deleted id from their dependencies.
DeleteStep(w, i) ==
  LET stepId == workflows[w][i].id
      newSteps == SelectSeq(workflows[w], LAMBDA step : step.id # stepId)
  IN /\ workflows' = [workflows EXCEPT ![w] =
          [j \in DOMAIN newSteps |->
             [newSteps[j] EXCEPT !.dependencies = @ \ {stepId}]]]
     /\ UNCHANGED <<nextId, wfVars, schedVars, taskVars, materializeVars, listVars,
                    stepVars, configFile, saves, saveCount, fileExists, groupTemplate,
                    templateSteps, executing, isRunning, stopped, conversionQueue,
                    allTasksCompleted, inFlight, submissions, retries>>

\* handleCopyWorkflow and handleImportWorkflow (of the JSON that
\* handleExportWorkflow wrote of a workflow of the list): every step of the
\* new workflow is the old one with a new id; the new workflow is put in
\* front of the list.
HandleCopyWorkflow(workflow) ==
  /\ Len(workflows) < MaxWorkflows
  /\ nextId + Len(workflow) - 1 <= MaxIds
  /\ workflows' = << [j \in DOMAIN workflow |->
                        [workflow[j] EXCEPT !.id = nextId + j - 1]] >> \o workflows
  /\ nextId' = nextId + Len(workflow)
  /\ UNCHANGED <<wfVars, schedVars, taskVars, materializeVars, listVars, stepVars,
                 configFile, saves, saveCount, fileExists, groupTemplate, templateSteps,
                 executing, isRunning, stopped, conversionQueue, allTasksCompleted,
                 inFlight, submissions, retries>>

\* handleImportWorkflow: the workflow read from the file gets new step ids
\* the same way and is put in front of the list; the file is an export of a
\* workflow of the list or of another one.
HandleImportWorkflow(importData) == HandleCopyWorkflow(importData)

EditNext ==
  \/ \E w \in DOMAIN workflows : AddStep(w)
  \/ \E w \in DOMAIN workflows : \E i \in DOMAIN workflows[w] :
       \E dependencies \in SUBSET (1..MaxIds), dependsOn \in 0..MaxIds :
         HandleSave(w, i, dependencies, dependsOn)
  \/ \E w \in DOMAIN workflows : \E i \in DOMAIN workflows[w] : DeleteStep(w, i)
  \/ \E w \in DOMAIN workflows : HandleCopyWorkflow(workflows[w])
  \/ \E importData \in
         {workflows[w] : w \in DOMAIN workflows} \cup
           {<<[id |-> 1, dependencies |-> {}, dependsOn |-> 0],
              [id |-> 2, dependencies |-> {1}, dependsOn |-> 1]>>} :
       HandleImportWorkflow(importData)

SpecEdit == SchedInit /\ [][EditNext]_vars

\* ------------------------------------------------------------------------
\* Saves of the configuration document (SpecSave)
\* ------------------------------------------------------------------------
\* POST /api/multi-stream/save as any client may call it: the body is
\* written to the file, which is created if it is not there. Followed here
\* for the request that creates the document.
PostMultiStreamSave(body) ==
  /\ ~fileExists
  /\ configFile' = body
  /\ fileExists' = TRUE
  /\ UNCHANGED <<saves, saveCount, wfVars, schedVars, taskVars, materializeVars, listVars,
                 stepVars, workflows, nextId, groupTemplate, templateSteps, executing,
                 isRunning, stopped, conversionQueue, allTasksCompleted, inFlight,
                 submissions, retries>>

\* saveConfig and saveWorkflowConfig up to the answer of GET
\* /api/multi-stream/load: existingConfig is the document as it is now.
\* Without the file the endpoint answers 404, axios.get throws and the catch
\* block ends the save: nothing is posted.
SaveLoads(c) ==
  /\ saves[c].pc = "idle"
  /\ saveCount < MaxSaves
  /\ saveCount' = saveCount + 1
  /\ saves' = [saves EXCEPT ![c] =
       IF fileExists
         THEN [pc |-> "loaded", existingConfig |-> configFile, edit |-> saveCount + 1,
               result |-> "none"]
         ELSE [@ EXCEPT !.result = "failed"]]
  /\ UNCHANGED <<configFile, fileExists, wfVars, schedVars, taskVars, materializeVars,
                 listVars, stepVars, workflows, nextId, groupTemplate, templateSteps,
                 executing, isRunning, stopped, conversionQueue, allTasksCompleted,
                 inFlight, submissions, retries>>

\* The rest of the save: the document is built from existingConfig and
\* posted, and POST /api/multi-stream/save writes it to the file as it is.
\* saveConfig puts its task list in workflowGroups, templates and their
\* workflows included, as the manager holds them (memoryWorkflows: some edit
\* made before); saveWorkflowConfig replaces the workflows of its group's
\* template.
SaveWrites(c, memoryWorkflows) ==
  /\ saves[c].pc = "loaded"
  /\ configFile' =
       IF c = "saveConfig"
         THEN [saves[c].existingConfig EXCEPT !.workflowGroups = saves[c].edit,
                                              !.workflows = memoryWorkflows]
         ELSE [saves[c].existingConfig EXCEPT !.workflows = saves[c].edit]
  /\ fileExists' = TRUE
  /\ saves' = [saves EXCEPT ![c].pc = "idle", ![c].result = "ok"]
  /\ UNCHANGED <<saveCount, wfVars, schedVars, taskVars, materializeVars, listVars,
                 stepVars, workflows, nextId, groupTemplate, templateSteps, executing,
                 isRunning, stopped, conversionQueue, allTasksCompleted, inFlight,
                 submissions, retries>>

SaveNext ==
  \/ \E body \in [workflowGroups : 0..1, workflows : 0..1] : PostMultiStreamSave(body)
  \/ \E c \in DOMAIN saves : SaveLoads(c)
  \/ \E c \in DOMAIN saves : \E memoryWorkflows \in 0..saveCount :
       SaveWrites(c, memoryWorkflows)

SpecSave == SchedInit /\ [][SaveNext]_vars

\* ------------------------------------------------------------------------
\* Copies of tasks (SpecCopy)
\* ------------------------------------------------------------------------
\* handleCopyGroup: the copy is { ...group, id, name, status, ... }; the
\* spread copies the reference held by the template field, so the copy's
\* workflows and steps are the objects of the task it was copied from.
\* The tasks loaded from the document each have objects of their own.
HandleCopyGroup(g) ==
  /\ Len(groupTemplate) < MaxGroups
  /\ groupTemplate' = Append(groupTemplate, groupTemplate[g])
  /\ UNCHANGED <<templateSteps, executing, wfVars, schedVars, taskVars, materializeVars,
                 listVars, stepVars, workflows, nextId, configFile, saves, saveCount,
                 fileExists, isRunning, stopped, conversionQueue, allTasksCompleted,
                 inFlight, submissions, retries>>

\* executeWorkflowWithRealAPI up to its first step: workflow.steps of the
\* task's workflow object becomes the list of reset steps.
ExecuteTaskWorkflow(g) ==
  /\ executing = 0
  /\ templateSteps' = [templateSteps EXCEPT ![groupTemplate[g]] = [s \in StepIds |-> "pending"]]
  /\ executing' = g
  /\ UNCHANGED <<groupTemplate, wfVars, schedVars, taskVars, materializeVars,
                 listVars, stepVars, workflows, nextId, configFile, saves, saveCount,
                 fileExists, isRunning, stopped, conversionQueue, allTasksCompleted,
                 inFlight, submissions, retries>>

\* The run starts its next step (the steps in order), or ends after the
\* last one.
ExecuteTaskStep ==
  LET steps == templateSteps[groupTemplate[executing]]
      open == {s \in StepIds : steps[s] = "pending"}
  IN /\ executing # 0
     /\ \A s \in StepIds : steps[s] # "running"
     /\ IF open = {}
          THEN /\ executing' = 0
               /\ UNCHANGED templateSteps
          ELSE /\ templateSteps' = [templateSteps EXCEPT ![groupTemplate[executing]]
                      [CHOOSE s \in open : \A t \in open : s <= t] = "running"]
               /\ UNCHANGED executing
     /\ UNCHANGED <<groupTemplate, wfVars, schedVars, taskVars, materializeVars,
                    listVars, stepVars, workflows, nextId, configFile, saves, saveCount,
                    fileExists, isRunning, stopped, conversionQueue, allTasksCompleted,
                    inFlight, submissions, retries>>

\* reExecuteStep of the manager on the task shown in the detail window:
\* step.status = 'running' on the step object of selectedTask.
ReExecuteTaskStep(g, s) ==
  /\ executing = 0
  /\ templateSteps' = [templateSteps EXCEPT ![groupTemplate[g]][s] = "running"]
  /\ executing' = g
  /\ UNCHANGED <<groupTemplate, wfVars, schedVars, taskVars, materializeVars,
                 listVars, stepVars, workflows, nextId, configFile, saves, saveCount,
                 fileExists, isRunning, stopped, conversionQueue, allTasksCompleted,
                 inFlight, submissions, retries>>

\* executeStepWithAPI answers for the running step: step.status becomes
\* success or error; a re-run of one step is over, a run of the workflow
\* goes on after a success and is over after a failure.
TaskStepSettles(ok) ==
  LET o == groupTemplate[executing]
      s == CHOOSE t \in StepIds : templateSteps[o][t] = "running"
      pending == \E t \in StepIds : templateSteps[o][t] = "pending"
  IN /\ executing # 0
     /\ \E t \in StepIds : templateSteps[o][t] = "running"
     /\ templateSteps' = [templateSteps EXCEPT ![o][s] = IF ok THEN "success" ELSE "error"]
     /\ executing' = IF ok /\ pending THEN executing ELSE 0
     /\ UNCHANGED <<groupTemplate, wfVars, schedVars, taskVars, materializeVars,
                    listVars, stepVars, workflows, nextId, configFile, saves, saveCount,
                    fileExists, isRunning, stopped, conversionQueue, allTasksCompleted,
                    inFlight, submissions, retries>>

CopyNext ==
  \/ \E g \in DOMAIN groupTemplate : HandleCopyGroup(g)
  \/ \E g \in DOMAIN groupTemplate : ExecuteTaskWorkflow(g)
  \/ ExecuteTaskStep
  \/ \E g \in DOMAIN groupTemplate : \E s \in StepIds : ReExecuteTaskStep(g, s)
  \/ \E ok \in BOOLEAN : TaskStepSettles(ok)

SpecCopy == SchedInit /\ [][CopyNext]_vars

\* ------------------------------------------------------------------------
\* Stopping an execution of the workflow list (SpecStop)
\* ------------------------------------------------------------------------
\* handleStopExecution (the button shown while the record's isRunning is
\* true): the record is marked not running. Nothing else is touched.
HandleStopExecution ==
  /\ isRunning
  /\ isRunning' = FALSE
  /\ stopped' = TRUE
  /\ UNCHANGED <<wfVars, schedVars, taskVars, materializeVars, listVars, stepVars,
                 workflows, nextId, configFile, saves, saveCount, fileExists,
                 groupTemplate, templateSteps, executing, conversionQueue,
                 allTasksCompleted, inFlight, submissions, retries>>

\* handleQuickExecute writes the record: isRunning true at the start,
\* completedSteps < totalSteps after a step, false after a failure.
StopNext ==
  \/ /\ QuickExecute
     /\ isRunning' = (wfPc' = "calling")
     /\ stopped' = FALSE
     /\ UNCHANGED <<rerunVars, directVars, promptVars, taskVars, materializeVars,
                    listVars, stepVars, workflows, nextId, configFile, saves, saveCount,
                    fileExists, groupTemplate, templateSteps, executing,
                    conversionQueue, allTasksCompleted, inFlight, submissions, retries>>
  \/ /\ RunStepSucceeds
     /\ isRunning' = (wfPc' = "calling")
     /\ UNCHANGED <<stopped, rerunVars, directVars, promptVars, taskVars, materializeVars,
                    listVars, stepVars, workflows, nextId, configFile, saves, saveCount,
                    fileExists, groupTemplate, templateSteps, executing,
                    conversionQueue, allTasksCompleted, inFlight, submissions, retries>>
  \/ /\ RunStepFails
     /\ isRunning' = FALSE
     /\ UNCHANGED <<stopped, rerunVars, directVars, promptVars, taskVars, materializeVars,
                    listVars, stepVars, workflows, nextId, configFile, saves, saveCount,
                    fileExists, groupTemplate, templateSteps, executing,
                    conversionQueue, allTasksCompleted, inFlight, submissions, retries>>
  \/ HandleStopExecution

SpecStop == WfInit /\ [][StopNext]_vars

\* ------------------------------------------------------------------------
\* The conversion queue of BatchProcessForm (SpecQueue)
\* ------------------------------------------------------------------------
CONCURRENCY_LIMIT == 6

\* The queue effect, which runs after every change of conversionQueue: with
\* nothing pending and nothing processing the batch is complete; otherwise
\* the first pending tasks fill the free slots: every task whose id is among
\* theirs is marked processing and processTask is called for each of them.
\* (The run of the effect that follows the marking starts nothing more.)
QueueEffect(queue, completed) ==
  LET processing == {i \in DOMAIN queue : queue[i].status = "processing"}
      pendingTasks == {i \in DOMAIN queue : queue[i].status = "pending"}
      slotsToFill == CONCURRENCY_LIMIT - Cardinality(processing)
      tasksToStart ==
        {i \in pendingTasks : Cardinality({j \in pendingTasks : j < i}) < slotsToFill}
      taskIdsToStart == {queue[i].id : i \in tasksToStart}
  IN [queue |-> [i \in DOMAIN queue |->
                  IF queue[i].id \in taskIdsToStart
                    THEN [queue[i] EXCEPT !.status = "processing"] ELSE queue[i]],
      started |-> [id \in taskIdsToStart |->
                    Cardinality({i \in tasksToStart : queue[i].id = id})],
      completed |-> IF pendingTasks = {} /\ processing = {} /\ queue # <<>>
                      THEN TRUE ELSE completed]

\* handleBatchConvert (the button is disabled while a batch runs): one task
\* per file value of every file input, here the files 1..n of the first
\* file input followed by the files 1..m of the second. The id is made of
\* source path, file and Date.now(), which is the same for the tasks of one
\* submission. The new list replaces the queue.
HandleBatchConvert(n, m) ==
  LET tasks == [i \in 1..(n + m) |->
                 [id |-> <<IF i <= n THEN i ELSE i - n, submissions + 1>>,
                  status |-> "pending"]]
      effect == QueueEffect(tasks, FALSE)
  IN /\ ~(conversionQueue # <<>> /\ ~allTasksCompleted)
     /\ submissions < MaxSubmissions
     /\ n + m > 0
     /\ submissions' = submissions + 1
     /\ conversionQueue' = effect.queue
     /\ allTasksCompleted' = effect.completed
     /\ inFlight' = inFlight (+) effect.started
     /\ UNCHANGED <<retries, wfVars, schedVars, taskVars, materializeVars, listVars,
                    stepVars, workflows, nextId, configFile, saves, saveCount,
                    fileExists, groupTemplate, templateSteps, executing, isRunning,
                    stopped>>

\* The request of a processTask call is answered (or fails): every task of
\* the queue with the call's id becomes success or error.
ProcessTaskSettles(id, ok) ==
  LET queue == [i \in DOMAIN conversionQueue |->
                 IF conversionQueue[i].id = id
                   THEN [conversionQueue[i] EXCEPT
                           !.status = IF ok THEN "success" ELSE "error"]
                   ELSE conversionQueue[i]]
      effect == QueueEffect(queue, allTasksCompleted)
  IN /\ BagIn(id, inFlight)
     /\ conversionQueue' = effect.queue
     /\ allTasksCompleted' = effect.completed
     /\ inFlight' = (inFlight (-) SetToBag({id})) (+) effect.started
     /\ UNCHANGED <<submissions, retries, wfVars, schedVars, taskVars, materializeVars,
                    listVars, stepVars, workflows, nextId, configFile, saves, saveCount,
                    fileExists, groupTemplate, templateSteps, executing, isRunning,
                    stopped>>

\* handleRetry (the link shown for a task with status error or success):
\* every task with the id becomes pending again.
HandleRetry(i) ==
  LET queue == [j \in DOMAIN conversionQueue |->
                 IF conversionQueue[j].id = conversionQueue[i].id
                   THEN [conversionQueue[j] EXCEPT !.status = "pending"]
                   ELSE conversionQueue[j]]
      effect == QueueEffect(queue, FALSE)
  IN /\ conversionQueue[i].status \in {"error", "success"}
     /\ retries < MaxRetries
     /\ retries' = retries + 1
     /\ conversionQueue' = effect.queue
     /\ allTasksCompleted' = effect.completed
     /\ inFlight' = inFlight (+) effect.started
     /\ UNCHANGED <<submissions, wfVars, schedVars, taskVars, materializeVars,
                    listVars, stepVars, workflows, nextId, configFile, saves, saveCount,
                    fileExists, groupTemplate, templateSteps, executing, isRunning,
                    stopped>>

QueueNext ==
  \/ \E n \in 0..MaxFiles, m \in 0..MaxSecond : HandleBatchConvert(n, m)
  \/ \E id \in BagToSet(inFlight), ok \in BOOLEAN : ProcessTaskSettles(id, ok)
  \/ \E i \in DOMAIN conversionQueue : HandleRetry(i)

SpecQueue == SchedInit /\ [][QueueNext]_vars

\* ------------------------------------------------------------------------
\* Properties
\* ------------------------------------------------------------------------
\* C1: while a batch-execute-all is in progress, at most maxConcurrentTasks
\* tasks have status running.
C1_RunningWithinLimit ==
  LET
    RunningTasks == {t \in Tasks : groups[t].status = "running"}
    BatchInProgress == \E b \in BatchIds : batches[b] # NoBatch
  IN
  BatchInProgress => Cardinality(RunningTasks) <= maxConcurrentTasks

\* C2: a run of a task that is not running any more (it was stopped) starts
\* no further workflow: a runner passes a workflow boundary only while its
\* task has status running.
C2_NoWorkflowAfterStop ==
  [][\A ru \in BagToSet(runners) :
       PauseDone(ru) => groups[ru.task].status = "running"]_vars

\* C3: the status of a stopped task (idle, endTime set) is not changed to
\* running or completed by the run that was stopped.
C3_StoppedRunKeepsStatus ==
  [][\A ru \in BagToSet(runners), ok \in BOOLEAN :
       (WorkflowSettles(ru, ok) /\ groups[ru.task].status = "idle")
         => (groups'[ru.task].status \in {"idle", "failed"}
             /\ groups'[ru.task].exec = "ended")]_vars

\* C4: an executeTask call for a task that can be executed is admitted if and
\* only if fewer than maxConcurrentTasks tasks are executing when it is made.
C4_AdmittedIffBelowLimit ==
  lastRequest.runnable =>
    (lastRequest.admitted <=> lastRequest.executing < maxConcurrentTasks)

\* The steps a step depends on, directly or through other steps.
DirectDeps(s) == {deps[s][i] : i \in DOMAIN deps[s]} \cap StepIds

RECURSIVE Closure(_, _)
Closure(S, n) ==
  IF n = 0 THEN S ELSE Closure(S \cup UNION {DirectDeps(x) : x \in S}, n - 1)

Ancestors(s) == Closure(DirectDeps(s), NumSteps)
HasCycle == \E s \in StepIds : s \in Ancestors(s)
\* C11: when a handleBatchExecute call resolves, an executeTask call of one of
\* its workers has run every task of its list to the end, and no task of the
\* list is run by two of its workers at a time.
C11_BatchRunsEveryTask ==
  [][LET
    \* The tasks handleBatchExecute(b) took or, in the step that calls it, takes.
    BatchList(b) == IF batches[b] # NoBatch THEN batches[b].list ELSE IdleFrom(groups, 1)
    BatchFinished(b) == IF batches[b] # NoBatch THEN batches[b].finished ELSE {}
    \* The step ends an executeTask call that a worker of batch b made for task t.
    BatchRunEnds(b, t) ==
      \E ru \in BagToSet(runners) :
        /\ ru.task = t
        /\ ru.owner # Manual
        /\ ru.owner[1] = b
        /\ CopiesIn(ru, runners') < CopiesIn(ru, runners)
  IN
  \A b \in BatchIds :
       /\ ((batches[b] # NoBatch \/ BatchExecute(b)) /\ batches'[b] = NoBatch)
            => \A i \in DOMAIN BatchList(b) :
                 BatchList(b)[i] \in BatchFinished(b) \/ BatchRunEnds(b, BatchList(b)[i])
       /\ \A r1, r2 \in BagToSet(runners') :
            (r1.owner # Manual /\ r2.owner # Manual /\ r1.owner[1] = b
               /\ r2.owner[1] = b /\ r1.task = r2.task) => r1.owner = r2.owner]_vars

\* The executeTask calls in flight for task t, in the bag r.
RunsOf(r, t) == BagCardinality([ru \in {x \in BagToSet(r) : x.task = t} |-> CopiesIn(ru, r)])

\* C12: while a task is running (an executeTask call works through its
\* workflows), no step starts a second call for it, so no two workflows of
\* the task execute at the same time.
C12_OneRunPerTask ==
  [][\A t \in Tasks :
       (groups[t].status = "running" /\ RunsOf(runners, t) > 0)
         => RunsOf(runners', t) <= RunsOf(runners, t)]_vars

\* Scenario D of the batch: what the workers of the batch are doing.
CapRunning == {t \in DOMAIN groups : groups[t].status = "running"}
WorkersIn(b, states) == {w \in DOMAIN batches[b].workers : batches[b].workers[w] \in states}

\* C13 as stated: from five idle tasks, until every task of the list is taken
\* exactly maxConcurrentTasks tasks are running.
C13_ExactlyCapRunning ==
  \A b \in BatchIds :
    (batches[b] # NoBatch /\ batches[b].taskIndex < Len(batches[b].list))
      => Cardinality(CapRunning) = maxConcurrentTasks

\* C13 amended: from five idle tasks, during the batch at most
\* maxConcurrentTasks tasks are running, and fewer are running only while a
\* worker pauses between two tasks or has left its loop.
C13_CapRunningButPauses ==
  \A b \in BatchIds :
    batches[b] # NoBatch
      => /\ Cardinality(CapRunning) <= maxConcurrentTasks
         /\ Cardinality(CapRunning) = Cardinality(WorkersIn(b, {"exec"}))
         /\ Cardinality(CapRunning) < maxConcurrentTasks
              => WorkersIn(b, {"sleep", "done"}) # {}

C13_Witness ==
  \E b \in BatchIds :
    /\ batches[b] # NoBatch
    /\ Len(batches[b].list) = CapTasks - 1
    /\ batches[b].taskIndex < Len(batches[b].list)
    /\ WorkersIn(b, {"sleep"}) # {}
    /\ Cardinality(CapRunning) = maxConcurrentTasks - 1

C15_ProgressReachesFull ==
  [][wfPc = "calling"
       => /\ progress' >= progress
          /\ wfPc' \in {"resolved", "rejected"} => progress' = 100]_vars

RerunFrom == 2
ChainRerun ==
  LET
    \* Scenario of C16: the chain s1 -> s2 -> ... was run with every step
    \* successful and is re-run from s2.
    IsChain == \A s \in StepIds : deps[s] = IF s = 1 THEN <<>> ELSE <<s - 1>>
  IN
  IsChain /\ rerun.kind # "none" /\ rerun.start = RerunFrom /\ rerun.allOk

\* C16: in that re-run the steps before s2 keep status and result and are
\* not executed; every step from s2 on is executed at most once, s2 is given
\* s1's existing result and each later step the result its predecessor
\* produced in the re-run; a re-run without failure has executed each of
\* them exactly once.
C16_RerunFromSecondStep ==
  ChainRerun =>
    /\ \A s \in 1..(RerunFrom - 1) :
         stepStatus[s] = "success" /\ resultGen[s] = 1 /\ apiCalls[s] = 0
    /\ \A s \in RerunFrom..NumSteps :
         /\ apiCalls[s] <= 1
         /\ (apiCalls[s] = 1 /\ stepStatus[s - 1] = "success")
              => supplied[s] = [d \in {s - 1} |-> IF s = RerunFrom THEN 1 ELSE 2]
         /\ stepStatus[s] = "success" => (resultGen[s] = 2 /\ apiCalls[s] = 1)
    /\ (wfPc = "resolved" /\ \A s \in StepIds : stepStatus[s] # "error")
         => \A s \in RerunFrom..NumSteps : stepStatus[s] = "success"

C16_Witness ==
  /\ ChainRerun
  /\ wfPc = "resolved"
  /\ \A s \in StepIds : stepStatus[s] = "success"
  /\ resultGen[NumSteps] = 2
  /\ supplied[NumSteps] = [d \in {NumSteps - 1} |-> 2]

\* C17: the handler makes at most 8 continuation requests after the first
\* request of a call.
C17_ContinuationCeiling == requests <= 1 + 8

\* C18: when the first stream ended with finish_reason length and the second
\* with stop, the assembled text is the first stream's content followed by
\* the second's, and has nothing of the continuation prompt in it.
C18_TwoStreamsConcatenated ==
  (/\ dpc = "done"
   /\ Len(iterations) = 2
   /\ iterations[1].reason = "length"
   /\ iterations[2].reason = "stop")
    => /\ aiContent = iterations[1].content \o iterations[2].content
       /\ \A i \in DOMAIN aiContent : aiContent[i] \in Chars

C18_Witness ==
  /\ dpc = "done"
  /\ Len(iterations) = 2
  /\ iterations[1].reason = "length"
  /\ iterations[2].reason = "stop"
  /\ iterations[1].content # <<>>
  /\ iterations[2].content # <<>>
  /\ iterations[1].content # iterations[2].content
  /\ Len(messages) = 4

\* A fenced block: an opening run of three backticks with a closing one.
HasFencedBlock(t) == Cardinality(Positions(t, "F", 0)) >= 2

\* C19 as stated: without a fenced block in the assembled text, the file
\* holds the text trimmed.
C19_NoFenceWritesTrimmed ==
  (dpc = "done" /\ ~HasFencedBlock(aiContent)) => written.content = Trim(aiContent)

\* C19 amended: without a fenced block in the assembled text, the file holds
\* the text as it is, leading and trailing whitespace included.
C19_NoFenceWritesText ==
  (dpc = "done" /\ ~HasFencedBlock(aiContent))
    => (written.set /\ written.content = aiContent)

C19_Witness ==
  /\ dpc = "done"
  /\ ~HasFencedBlock(aiContent)
  /\ aiContent # Trim(aiContent)
  /\ Trim(aiContent) # <<>>
  /\ written.content = aiContent

\* C20: for the one prompt input "alpha {{A}} beta {{B}} gamma" the request's
\* inputs are prompt alpha, file path-of-A, prompt beta, file path-of-B,
\* prompt gamma, in this order.
C20_PromptInterleaving ==
  (promptInputs = <<ScenarioPrompt>> /\ ppc # "idle")
    => /\ ppc = "sent"
       /\ processedInputs = << PromptPart(<<"alpha">>), FilePart("pathOfA"),
                               PromptPart(<<"beta">>), FilePart("pathOfB"),
                               PromptPart(<<"gamma">>) >>

C20_Witness ==
  /\ promptInputs = <<ScenarioPrompt>>
  /\ ppc = "sent"
  /\ Len(processedInputs) = 5

\* An executeTask call on a task returns after the last workflow of the task:
\* ru is the call's runner before the step.
LastWorkflowOf(ru) == ru.pc = "wf" /\ ru.i = WfCount(ru.task) - 1
FailedAfter(ru) == IF lastSettled'.ok THEN ru.failed ELSE ru.failed + 1

\* C21: when an executeTask call has attempted every workflow of its task,
\* the task has one outcome counted per workflow, and its status is failed if
\* every workflow failed and completed otherwise (no failure, or at least one
\* success).
C21_FinalStatusFromCounters ==
  [][LET
    TaskRunEnds(ru) == LastWorkflowOf(ru) /\ runners' = runners (-) SetToBag({ru})
  IN
  \A ru \in BagToSet(runners) :
       TaskRunEnds(ru) =>
         LET r == executionResults'[ru.task]
         IN /\ r.completedWorkflows + r.failedWorkflows = WfCount(ru.task)
            /\ r.failedWorkflows = FailedAfter(ru)
            /\ groups'[ru.task].status =
                 IF r.failedWorkflows = WfCount(ru.task) THEN "failed" ELSE "completed"]_vars

\* A task of two workflows ended with one success and one failure.
C21_Witness ==
  \E t \in Tasks :
    /\ WfCount(t) = 2
    /\ groups[t].status = "completed"
    /\ executionResults[t] = [completedWorkflows |-> 1, failedWorkflows |-> 1]
    /\ RunsOf(runners, t) = 0

\* C22: when a workflow of a task settles, a failure is counted in
\* failedWorkflows, and if it was not the task's last workflow the runner goes
\* on, whether it failed or not, to the pause and then to the next workflow
\* in order.
C22_FailureDoesNotAbortTask ==
  [][LET
    \* The workflow a runner waits for settles / the runner's pause ends.
    WorkflowSettlesFor(ru) == ru.pc = "wf" /\ CopiesIn(ru, runners') < CopiesIn(ru, runners)
    PauseEndsFor(ru) == ru.pc = "pause" /\ CopiesIn(ru, runners') < CopiesIn(ru, runners)
    Replaced(ru, by) == runners' = (runners (-) SetToBag({ru})) (+) SetToBag({by})
  IN
  \A ru \in BagToSet(runners) :
       /\ WorkflowSettlesFor(ru) =>
            /\ lastSettled'.task = ru.task /\ lastSettled'.i = ru.i
            /\ executionResults'[ru.task].failedWorkflows = FailedAfter(ru)
            /\ ~LastWorkflowOf(ru) =>
                 Replaced(ru, [ru EXCEPT !.pc = "pause", !.failed = FailedAfter(ru)])
       /\ PauseEndsFor(ru) =>
            Replaced(ru, [ru EXCEPT !.pc = "wf", !.i = ru.i + 1])]_vars

\* The first workflow of a task failed and the second one is being run.
C22_Witness ==
  \E ru \in BagToSet(runners) :
    /\ ru.pc = "wf" /\ ru.i = 1 /\ ru.failed = 1
    /\ executionResults[ru.task].failedWorkflows = 1
    /\ groups[ru.task].status = "running"

ScenarioMaterialize ==
  LET
    \* Scenario C: the one selection (sourcePath "C:\root", file "sub\bar.jsp"),
    \* namePrefix "Task-", no namePattern.
    ScenarioFile == <<"sub", "\\", "bar", ".", "jsp">>
  IN
  /\ mpc = "created"
  /\ batchCreate.selectedFiles = <<[sourcePath |-> <<"C:", "\\", "root">>, file |-> ScenarioFile]>>
  /\ batchCreate.values = [namePrefix |-> <<"Task", "-">>, namePattern |-> <<>>]
ScenarioInput ==
  batchCreate.template.step.config.fileInputs[1]

\* C23 as stated: the task of scenario C is called "Task-Bar".
C23_NameIsTaskBar ==
  ScenarioMaterialize => newGroups[1].name = <<"Task", "-", "Bar">>

\* C23 amended: the task of scenario C is called "Task--Bar": the prefix
\* "Task-", the dash handleAdvancedBatchCreate puts after every prefix, and
\* the file's base name with its first letter in upper case.
C23_NameIsPrefixDashBase ==
  ScenarioMaterialize => newGroups[1].name = <<"Task", "-", "-", "Bar">>

C23_Witness ==
  /\ ScenarioMaterialize
  /\ Len(newGroups) = 1
  /\ Len(newGroups[1].name) = 4

\* C24 as stated: in scenario C the file input {name "src", path
\* "C:\old\Foo.jsp"} gets the path "C:\root\sub\bar.jsp".
C24_SrcInputGetsSourcePath ==
  (ScenarioMaterialize /\ ScenarioInput.name = "src"
     /\ ScenarioInput.path = <<"C:", "\\", "old", "\\", "Foo", ".", "jsp">>)
    => newGroups[1].template.step.config.fileInputs[1].path
         = <<"C:", "\\", "root", "\\", "sub", "\\", "bar", ".", "jsp">>

\* C24 amended: in scenario C the file input {name "src", path
\* "C:\old\Foo.jsp"} gets the path "C:\old\sub\bar.jsp" (its own directory,
\* the directory of the file, the file's name); the same input under the name
\* "jsp" gets "C:\root\sub\bar.jsp".
C24_SrcInputKeepsDirectory ==
  (ScenarioMaterialize
     /\ ScenarioInput.path = <<"C:", "\\", "old", "\\", "Foo", ".", "jsp">>)
    => LET path == newGroups[1].template.step.config.fileInputs[1].path
       IN /\ ScenarioInput.name = "src"
               => path = <<"C:", "\\", "old", "\\", "sub", "\\", "bar", ".", "jsp">>
          /\ ScenarioInput.name = "jsp"
               => path = <<"C:", "\\", "root", "\\", "sub", "\\", "bar", ".", "jsp">>

C24_Witness ==
  /\ ScenarioMaterialize
  /\ ScenarioInput.name = "src"
  /\ ScenarioInput.path = <<"C:", "\\", "old", "\\", "Foo", ".", "jsp">>
  /\ newGroups[1].template.step.config.fileInputs[1].ref = 1

\* C25: the tasks handleAdvancedBatchCreate makes share no workflow, step,
\* config or file-input object with the template or with one another.
C25_NoSharedObject ==
  LET
    \* The workflow, step, config and file-input objects of a template.
    ObjectsOf(template) ==
      {<<"workflow", template.workflowRef>>, <<"step", template.step.ref>>,
       <<"config", template.step.config.ref>>}
        \cup {<<"fileInput", i, template.step.config.fileInputs[i].ref>> :
                 i \in 1..Len(template.step.config.fileInputs)}
  IN
  mpc = "created" =>
    \A k \in 1..Len(newGroups) :
      /\ ObjectsOf(newGroups[k].template) \cap ObjectsOf(batchCreate.template) = {}
      /\ \A j \in 1..Len(newGroups) :
           j # k => ObjectsOf(newGroups[k].template) \cap ObjectsOf(newGroups[j].template) = {}

\* C26: a request with fileType ".x" and a request with fileType "x" for the
\* same folder are answered with the same list of files.
C26_LeadingDotIsIgnored ==
  \A i, j \in 1..Len(listed) :
    (/\ listed[i].folderPath = listed[j].folderPath
     /\ listed[i].status = 200
     /\ listed[j].fileType = <<".">> \o listed[i].fileType)
      => listed[j].data = listed[i].data

C27_StatusMachine ==
  \A w \in statusWrites :
    \/ w.from = "pending" /\ w.to = "running"
    \/ w.from = "running" /\ w.to \in {"success", "error", "skipped"}
    \/ w.from \in {"success", "error", "skipped"} /\ w.to = "pending"

\* C29: reExecuteStep executes the selected step only if every step of its
\* dependencies has status success and a result.
C29_ExecutesOnlyWithDependencies ==
  single.executed => single.missing = {}

\* C30: a step of reExecuteStep (its start, its settling) leaves the status
\* and the result of every step but the selected one as they are.
C30_OnlySelectedStepChanges ==
  [][op' = "step" =>
       \A s \in StepIds \ {single'.step} :
         stepStatus'[s] = stepStatus[s] /\ stepResult'[s] = stepResult[s]]_vars

\* Step 2 was re-executed alone and failed, between step 1 it depends on and
\* step 3 that depends on it, both still with their success.
C30_Witness ==
  /\ op = "step" /\ single.step = 2 /\ single.executed /\ wfPc = "resolved"
  /\ deps[2] = <<1>> /\ deps[3] = <<2>>
  /\ stepStatus = (1 :> "success") @@ (2 :> "error") @@ (3 :> "success")
  /\ stepResult = (1 :> "ok") @@ (2 :> "err") @@ (3 :> "ok")

C32_DependenciesNameSteps ==
  \A w \in DOMAIN workflows : \A i \in DOMAIN workflows[w] :
    \A d \in workflows[w][i].dependencies :
      \E j \in DOMAIN workflows[w] : j # i /\ workflows[w][j].id = d

\* C33: after every edit operation, the step a file input depends on is a
\* step of the same workflow, of lower order than the step of the input.
C33_DependsOnNamesEarlierStep ==
  \A w \in DOMAIN workflows : \A i \in DOMAIN workflows[w] :
    workflows[w][i].dependsOn # 0 =>
      \E j \in 1..(i - 1) : workflows[w][j].id = workflows[w][i].dependsOn

\* C34: saves of one document do not interleave: a save writes the document
\* it built from existingConfig only while the file still is what it loaded,
\* so a save that ends later starts from what the earlier one wrote.
C34_SavesDoNotInterleave ==
  [][\A c \in DOMAIN saves :
       (saves[c].pc = "loaded" /\ saves'[c].pc = "idle")
         => saves[c].existingConfig = configFile]_vars

\* C35: executing or re-running a task changes the status of steps of that
\* task only: the steps of every other task, a copy of it included, stay as
\* they are.
C35_OnlyOwnStepsChange ==
  [][\A g \in DOMAIN groupTemplate :
       g \notin {executing, executing'}
         => templateSteps'[groupTemplate[g]] = templateSteps[groupTemplate[g]]]_vars

\* C36: once the user has stopped an execution, no further step of the
\* workflow is started by it: no step is called while the execution stays
\* stopped.
C36_NoStepAfterStop ==
  [][(stopped /\ stopped') => apiCalls' = apiCalls]_vars

\* C37: a save succeeds when the document does not exist yet and creates
\* it: once a save has ended, the document exists.
C37_FirstSaveCreatesDocument ==
  (\E c \in DOMAIN saves : saves[c].result # "none") => fileExists

\* C38: the loop of the direct endpoint goes on to another completion
\* request only when the stream it has just read reported finish_reason
\* length; a stream without any finish_reason ends the loop.
C38_ContinuesOnlyAfterLength ==
  (dpc = "requesting" /\ iterations # <<>>)
    => iterations[Len(iterations)].reason = "length"

\* C39: at most 6 conversion requests of the batch conversion queue are in
\* flight at any time.
C39_AtMostSixInFlight == BagCardinality(inFlight) <= CONCURRENCY_LIMIT

\* C40: materializing the template of a task that was materialized, with the
\* same selected file and the same form values, gives the step configuration
\* again: the same file input paths, outputFolder and outputFileName.
C40_RematerializeSame ==
  mpc = "created" =>
    \A k \in DOMAIN newGroups :
      LET config == newGroups[k].template.step.config
          again == NewGroup(newGroups[k].template, batchCreate.selectedFiles[k],
                            batchCreate.values, k).template.step.config
      IN /\ \A i \in DOMAIN config.fileInputs :
              again.fileInputs[i].path = config.fileInputs[i].path
         /\ again.outputFolder = config.outputFolder
         /\ again.outputFileName = config.outputFileName

\* C5: when a run of a workflow is over (its dependencies name steps of the
\* workflow and have no cycle), every step below a failed step was not
\* executed and is skipped, and every other step was executed.
C5_FailureSkipsDependentsOnly ==
  LET
    NoGhost == \A s \in StepIds : \A i \in DOMAIN deps[s] : deps[s][i] \in StepIds
    RunSettled == wfPc \in {"resolved", "rejected"}
    FailedSteps == {f \in StepIds : stepStatus[f] = "error"}
  IN
  (RunSettled /\ NoGhost /\ ~HasCycle) =>
    \A s \in StepIds \ FailedSteps :
      IF Ancestors(s) \cap FailedSteps # {}
        THEN stepStatus[s] = "skipped" /\ apiCalls[s] = 0
        ELSE stepStatus[s] = "success"

\* C6: a workflow whose dependencies contain a cycle is refused before any
\* step is set to running or executed.
C6_CyclicWorkflowRunsNoStep ==
  HasCycle =>
    /\ wfPc \in {"idle", "rejected"}
    /\ \A s \in StepIds : stepStatus[s] = "pending" /\ apiCalls[s] = 0

\* C7: in a run that ended in success, every step started with all the ids
\* of its dependencies holding a success result in stepResults.
C7_DependenciesSucceededAtStart ==
  wfPc = "resolved" => \A s \in StepIds : startedOk[s] = "yes"

\* C8: every step of the saved document, in the task and in the templates,
\* has status pending and no result.
C8_SavedStepsArePending ==
  /\ \A s \in StepIds : doc.groupSteps[s] = [status |-> "pending", result |-> "none"]
  /\ \A i \in DOMAIN doc.templates : \A s \in StepIds :
       doc.templates[i][s] = [status |-> "pending", result |-> "none"]

\* C9: no task has status running when the task list has been loaded from
\* the saved configuration.
C9_LoadedTasksNotRunning ==
  [][(LoadGroups \/ ReloadApp) => \A t \in Tasks : groups'[t].status # "running"]_vars

\* C10: a task whose runs have all ended is not left in status running.
C10_NoRunningTaskWithoutRun ==
  \A t \in Tasks :
    (\A ru \in BagToSet(runners) : ru.task # t) => groups[t].status # "running"

====
